---- MODULE Spec2Model ----
(***************************************************************************)
(* Scheduled report-export orchestrator (sample/06-mongoose).              *)
(*                                                                         *)
(* The module models                                                       *)
(*   - the task store (ScheduledTask documents keyed by (id, tenantId)),   *)
(*   - the cron registry (SchedulerRegistry map jobName -> CronJob and the *)
(*     CronJob objects that are started),                                  *)
(*   - the asynchronous calls createOrUpdate / rescheduleTask /            *)
(*     loadAllEnabledTasks, cut at their await points,                     *)
(*   - one run of executeTask, cut at its await points, together with the  *)
(*     export collaborator (ReportExportService) and the mail service.     *)
(***************************************************************************)
EXTENDS Integers, Sequences, FiniteSets, Bags, TLC

(***************************************************************************)
(* Bounds of the model                                                     *)
(***************************************************************************)
\* number of calls of the registry's operations (createOrUpdate, rescheduleTask,
\* loadAllEnabledTasks, scheduleTask, unscheduleTask, onModuleDestroy) issued in
\* one behaviour
MaxOps == 3
\* number of exceptions thrown by the collaborators (database, export service,
\* mail transport) in one behaviour
MaxFaults == 1
\* length of pageIds and of branchIds of the task that is run
MaxPages == 2
MaxBranches == 2
\* largest EXPORT_RETRY_COUNT the runs are checked with
MaxRetry == 2
\* polls of one wait before the maximum wait time has elapsed
\* (maxWaitTime / pollInterval, scaled down)
MaxPolls == 2
\* largest EXPORT_RETRY_COUNT the backoff delays are checked with
MaxBackoffRetry == 5

(***************************************************************************)
(* Program constants and small input domains                               *)
(***************************************************************************)
SYSTEM_TASK_ID == "security-operations-report-system"
\* parseInt(process.env.EXPORT_RETRY_COUNT || '3', 10)
EXPORT_RETRY_COUNT == 3
\* parseInt(process.env.MAX_CONCURRENT_EXPORTS || '2', 10)
MAX_CONCURRENT_EXPORTS == 2
Tenants == {"T1", "T2"}
NoTask == [none |-> TRUE]
NoJob == 0
NoRange == [none |-> TRUE]

\* `scheduled-task-${task.id}-${task.tenantId}`
JobName(taskId, tenantId) == <<"scheduled-task", taskId, tenantId>>
JobNames == {JobName(SYSTEM_TASK_ID, t) : t \in Tenants}

\* CronGenerator.generate(frequency, time): seconds minutes hours dom month dow
CronGenerate(frequency, time) ==
    [sec |-> 0, min |-> time.mm, hour |-> time.hh,
     dom |-> IF frequency = "monthly" THEN "1" ELSE "*",
     mon |-> "*",
     dow |-> IF frequency = "weekly" THEN "1" ELSE "*"]

\* the request bodies of PUT /scheduled-tasks used by the registry behaviours
EnableDtos ==
    { [enable |-> TRUE, frequency |-> f, time |-> [hh |-> 9, mm |-> 0],
       recipient |-> {"a@x.com"}, pageIds |-> <<"p1">>, branchIds |-> <<>>]
      : f \in {"daily", "weekly"} }
DisableDto == [enable |-> FALSE]
\* an enabling body without the required fields
InvalidDto == [enable |-> TRUE, frequency |-> "daily"]
Dtos == EnableDtos \cup {DisableDto, InvalidDto}

VARIABLES
    taskStore,   \* taskModel: tenantId -> ScheduledTask document or NoTask
    taskDocs,    \* tenantId -> number of documents of the collection scheduled_tasks
                 \* whose key is (SYSTEM_TASK_ID, tenantId)
    cronJobs,    \* SchedulerRegistry: jobName -> id of the registered CronJob, or NoJob
    timers,      \* the CronJob objects that are started (not stopped)
    calls,       \* bag of the asynchronous registry calls in flight, each at an await
    ops,         \* number of registry operations called so far
    streak,      \* jobName -> consecutive scheduleTask calls since the last delete
    lastTick,    \* the last cron tick: its job name and the runs it started
    rejected     \* the calls that returned an error to their caller, each with
                 \* the CronJob registered for its key at that moment

regVars == <<taskStore, taskDocs, cronJobs, timers, calls, ops, streak, lastTick, rejected>>

VARIABLES
    retryLimit,  \* EXPORT_RETRY_COUNT of the process
    runs,        \* run id -> the executeTask invocation, at an await point
    exportTasks, \* exportTaskModel: _id -> ExportTask document, for the documents
                 \* that can still change or be read by a run
    exportCount, \* number of ExportTask documents created so far
    records,     \* executionRecordModel: sequence of persisted records, _id = index
    emails,      \* the calls made to EmailService.sendEmail, in order
    faults       \* number of exceptions thrown by collaborators so far

runVars == <<retryLimit, runs, exportTasks, exportCount, records, emails, faults>>

VARIABLES
    timeRange    \* one call of calculateTimeRange: its inputs and, once it has
                 \* returned, its result

timeVars == <<timeRange>>
vars == <<regVars, runVars, timeVars>>

(***************************************************************************)
(* Task store: TaskUpdater                                                 *)
(***************************************************************************)
\* disableTask writing its insert defaults with $set
DisableTaskSetsDefaults(store, tenantId) ==
    [store EXCEPT ![tenantId] =
        [id |-> SYSTEM_TASK_ID, tenantId |-> tenantId, enable |-> FALSE,
         frequency |-> "daily", time |-> [hh |-> 0, mm |-> 0],
         recipient |-> {}, pageIds |-> <<>>, branchIds |-> <<>>,
         cronExpression |-> [sec |-> 0, min |-> 0, hour |-> 0,
                             dom |-> "*", mon |-> "*", dow |-> "*"]]]

\* TaskUpdater.disableTask: findOneAndUpdate({id, tenantId},
\*   {$set: {enable: false}, $setOnInsert: {...defaults}}, {upsert: true})
DisableTask(store, tenantId) ==
    LET old == store[tenantId]
        doc == IF old = NoTask
               THEN [id |-> SYSTEM_TASK_ID, tenantId |-> tenantId, enable |-> FALSE,
                     frequency |-> "daily", time |-> [hh |-> 0, mm |-> 0],
                     recipient |-> {}, pageIds |-> <<>>, branchIds |-> <<>>,
                     cronExpression |-> [sec |-> 0, min |-> 0, hour |-> 0,
                                         dom |-> "*", mon |-> "*", dow |-> "*"]]
               ELSE [old EXCEPT !.enable = FALSE]
    IN  [store EXCEPT ![tenantId] = doc]

\* a write that inserts a new document whether or not one matches the filter
UpsertAlwaysInserts(n) == n + 1

\* findOneAndUpdate({id, tenantId}, update, {upsert: true}) on a collection in
\* which n documents match the filter: the match is updated, and a document is
\* inserted only when there is none (the collection has the unique index
\* id_1_tenantId_1); the result is the number of documents that match afterwards
Upsert(n) == IF n = 0 THEN 1 ELSE n

\* the number of documents per key of a collection whose content is store
StoredCount(store) == [t \in Tenants |-> IF store[t] = NoTask THEN 0 ELSE 1]

\* enableOrUpdateTask generating the cron expression only when it inserts
EnableOrUpdateTaskKeepsCron(store, dto, tenantId) ==
    LET doc == [id |-> SYSTEM_TASK_ID, tenantId |-> tenantId, enable |-> TRUE,
                frequency |-> dto.frequency, time |-> dto.time,
                recipient |-> dto.recipient, pageIds |-> dto.pageIds,
                branchIds |-> IF "branchIds" \in DOMAIN dto THEN dto.branchIds
                              ELSE IF store[tenantId] = NoTask THEN <<>>
                              ELSE store[tenantId].branchIds,
                cronExpression |-> IF store[tenantId] = NoTask
                                   THEN CronGenerate(dto.frequency, dto.time)
                                   ELSE store[tenantId].cronExpression]
    IN  [store EXCEPT ![tenantId] = doc]

\* TaskUpdater.enableOrUpdateTask: findOneAndUpdate({id, tenantId},
\*   {$set: updateData, $setOnInsert: {id, tenantId}}, {upsert: true})
EnableOrUpdateTask(store, dto, tenantId) ==
    LET doc == [id |-> SYSTEM_TASK_ID, tenantId |-> tenantId, enable |-> TRUE,
                frequency |-> dto.frequency, time |-> dto.time,
                recipient |-> dto.recipient, pageIds |-> dto.pageIds,
                branchIds |-> IF "branchIds" \in DOMAIN dto THEN dto.branchIds
                              ELSE IF store[tenantId] = NoTask THEN <<>>
                              ELSE store[tenantId].branchIds,
                cronExpression |-> CronGenerate(dto.frequency, dto.time)]
    IN  [store EXCEPT ![tenantId] = doc]

(***************************************************************************)
(* Cron registry: ScheduledTaskSchedulerService over SchedulerRegistry.    *)
(* A registry value R is the pair [cronJobs, timers].                      *)
(***************************************************************************)
Registry == [cronJobs |-> cronJobs, timers |-> timers]

\* schedulerRegistry.doesExist('cron', jobName)
DoesExist(R, name) == R.cronJobs[name] # NoJob

\* a deleteCronJob that drops the entry without stopping the job
DeleteCronJobKeepsTimer(R, name) ==
    [cronJobs |-> [R.cronJobs EXCEPT ![name] = NoJob],
     timers   |-> R.timers]

\* schedulerRegistry.deleteCronJob(jobName): stop the job, drop the entry
DeleteCronJob(R, name) ==
    [cronJobs |-> [R.cronJobs EXCEPT ![name] = NoJob],
     timers   |-> {j \in R.timers : j.id # R.cronJobs[name]}]

\* new CronJob(...): the identity of the object created
NewJobId(R) == CHOOSE i \in 1..(Cardinality(R.timers) + 1) : \A j \in R.timers : j.id # i

\* a scheduleTask that overwrites the registry entry without stopping the old job
ScheduleTaskNoStop(R, task) ==
    LET name == JobName(task.id, task.tenantId)
        job  == [id |-> NewJobId(R), name |-> name, task |-> task]
    IN  [cronJobs |-> [R.cronJobs EXCEPT ![name] = job.id],
         timers   |-> R.timers \cup {job}]

\* scheduleTask(task): delete an existing job of the same name, then create a
\* started CronJob holding the task snapshot and register it
ScheduleTask(R, task) ==
    LET name == JobName(task.id, task.tenantId)
        R1   == IF DoesExist(R, name) THEN DeleteCronJob(R, name) ELSE R
        job  == [id |-> NewJobId(R1), name |-> name, task |-> task]
    IN  [cronJobs |-> [R1.cronJobs EXCEPT ![name] = job.id],
         timers   |-> R1.timers \cup {job}]

\* unscheduleTask(taskId, tenantId)
UnscheduleTask(R, taskId, tenantId) ==
    LET name == JobName(taskId, tenantId)
    IN  IF DoesExist(R, name) THEN DeleteCronJob(R, name) ELSE R

\* clearAllJobs(): delete every registered job whose name starts with
\* 'scheduled-task-'
ClearAllJobs(R) ==
    [cronJobs |-> [n \in JobNames |-> NoJob],
     timers   |-> {j \in R.timers : \A n \in JobNames : R.cronJobs[n] # j.id}]

TimersOf(name) == {j \in timers : j.name = name}

\* the registry R becomes the next state
SetRegistry(R) ==
    /\ cronJobs' = R.cronJobs
    /\ timers' = R.timers

\* streak: a scheduleTask adds one to the name's count (counted up to two), an
\* unscheduleTask resets it
StreakAfterSchedule(name) == [streak EXCEPT ![name] = IF @ < 2 THEN @ + 1 ELSE @]
StreakAfterDelete(name) == [streak EXCEPT ![name] = 0]

(***************************************************************************)
(* Asynchronous calls.  A call in flight is [op, tenant, pc, dto, read,    *)
(* loaded]; pc names the await the call is suspended at.  A call that has  *)
(* returned or thrown leaves the bag.                                      *)
(***************************************************************************)
NewCall(op, tenant, pc, dto) ==
    [op |-> op, tenant |-> tenant, pc |-> pc, dto |-> dto, read |-> NoTask, loaded |-> {}]

InFlight == BagToSet(calls)
Issue(c) == calls (+) SetToBag({c})
Return(c) == calls (-) SetToBag({c})
Move(c, d) == (calls (-) SetToBag({c})) (+) SetToBag({d})
AllCallsCompleted == calls = EmptyBag

\* TaskValidator.validateEnableTask(taskData): the required fields are present
ValidateEnableTask(dto) ==
    /\ "frequency" \in DOMAIN dto
    /\ "time" \in DOMAIN dto
    /\ "recipient" \in DOMAIN dto
    /\ "pageIds" \in DOMAIN dto

\* the error a call returns to its caller
Rejection(op, tenantId) ==
    [op |-> op, tenant |-> tenantId, job |-> cronJobs[JobName(SYSTEM_TASK_ID, tenantId)]]

\* createOrUpdate that cancels the schedule before it validates the body
CreateOrUpdateValidatesLate(tenantId, dto) ==
    /\ ops < MaxOps
    /\ ops' = ops + 1
    /\ calls' = IF ~dto.enable
                THEN Issue(NewCall("createOrUpdate", tenantId, "disable_upsert", dto))
                ELSE IF ValidateEnableTask(dto)
                     THEN Issue(NewCall("createOrUpdate", tenantId, "enable_upsert", dto))
                     ELSE calls
    /\ rejected' = IF dto.enable /\ ~ValidateEnableTask(dto)
                   THEN rejected \cup {Rejection("createOrUpdate", tenantId)}
                   ELSE rejected
    /\ IF dto.enable /\ ~ValidateEnableTask(dto)
       THEN /\ SetRegistry(UnscheduleTask(Registry, SYSTEM_TASK_ID, tenantId))
            /\ UNCHANGED <<taskStore, taskDocs, streak, lastTick, runVars, timeVars>>
       ELSE UNCHANGED <<taskStore, taskDocs, cronJobs, timers, streak, lastTick, runVars, timeVars>>

\* createOrUpdate(taskData, tenantId), up to its first await; a DTO that fails
\* the validation makes the call throw at once
CreateOrUpdate(tenantId, dto) ==
    /\ ops < MaxOps
    /\ ops' = ops + 1
    /\ calls' = IF ~dto.enable
                THEN Issue(NewCall("createOrUpdate", tenantId, "disable_upsert", dto))
                ELSE IF ValidateEnableTask(dto)
                     THEN Issue(NewCall("createOrUpdate", tenantId, "enable_upsert", dto))
                     ELSE calls
    /\ rejected' = IF dto.enable /\ ~ValidateEnableTask(dto)
                   THEN rejected \cup {Rejection("createOrUpdate", tenantId)}
                   ELSE rejected
    /\ UNCHANGED <<taskStore, taskDocs, cronJobs, timers, streak, lastTick, runVars, timeVars>>

\* the database applies disableTask's findOneAndUpdate
DisableUpsert(c) ==
    /\ c.pc = "disable_upsert"
    /\ taskStore' = DisableTask(taskStore, c.tenant)
    /\ taskDocs' = [taskDocs EXCEPT ![c.tenant] = Upsert(@)]
    /\ calls' = Move(c, [c EXCEPT !.pc = "disable_resume"])
    /\ UNCHANGED <<cronJobs, timers, ops, streak, lastTick, rejected, runVars, timeVars>>

\* a createOrUpdate that reschedules the stored task after disableTask
DisableResumeReschedules(c) ==
    /\ c.pc = "disable_resume"
    /\ SetRegistry(ScheduleTask(UnscheduleTask(Registry, SYSTEM_TASK_ID, c.tenant),
                                taskStore[c.tenant]))
    /\ streak' = StreakAfterSchedule(JobName(SYSTEM_TASK_ID, c.tenant))
    /\ calls' = Return(c)
    /\ UNCHANGED <<taskStore, taskDocs, ops, lastTick, rejected, runVars, timeVars>>

\* createOrUpdate resumes after disableTask: unscheduleTask, return
DisableResume(c) ==
    /\ c.pc = "disable_resume"
    /\ SetRegistry(UnscheduleTask(Registry, SYSTEM_TASK_ID, c.tenant))
    /\ streak' = StreakAfterDelete(JobName(SYSTEM_TASK_ID, c.tenant))
    /\ calls' = Return(c)
    /\ UNCHANGED <<taskStore, taskDocs, ops, lastTick, rejected, runVars, timeVars>>

\* the database applies enableOrUpdateTask's findOneAndUpdate
EnableUpsert(c) ==
    /\ c.pc = "enable_upsert"
    /\ taskStore' = EnableOrUpdateTask(taskStore, c.dto, c.tenant)
    /\ taskDocs' = [taskDocs EXCEPT ![c.tenant] = Upsert(@)]
    /\ calls' = Move(c, [c EXCEPT !.pc = "enable_resume"])
    /\ UNCHANGED <<cronJobs, timers, ops, streak, lastTick, rejected, runVars, timeVars>>

\* createOrUpdate resumes after enableOrUpdateTask and enters rescheduleTask:
\* unscheduleTask, then findOne is issued
EnableResume(c) ==
    /\ c.pc = "enable_resume"
    /\ SetRegistry(UnscheduleTask(Registry, SYSTEM_TASK_ID, c.tenant))
    /\ streak' = StreakAfterDelete(JobName(SYSTEM_TASK_ID, c.tenant))
    /\ calls' = Move(c, [c EXCEPT !.pc = "resched_find"])
    /\ UNCHANGED <<taskStore, taskDocs, ops, lastTick, rejected, runVars, timeVars>>

\* rescheduleTask(taskId, tenantId) called on its own, up to its await
RescheduleTask(tenantId) ==
    /\ ops < MaxOps
    /\ ops' = ops + 1
    /\ SetRegistry(UnscheduleTask(Registry, SYSTEM_TASK_ID, tenantId))
    /\ streak' = StreakAfterDelete(JobName(SYSTEM_TASK_ID, tenantId))
    /\ calls' = Issue(NewCall("rescheduleTask", tenantId, "resched_find", DisableDto))
    /\ UNCHANGED <<taskStore, taskDocs, lastTick, rejected, runVars, timeVars>>

\* the database answers rescheduleTask's findOne({id, tenantId})
ReschedFind(c) ==
    /\ c.pc = "resched_find"
    /\ calls' = Move(c, [c EXCEPT !.pc = "resched_resume", !.read = taskStore[c.tenant]])
    /\ UNCHANGED <<taskStore, taskDocs, cronJobs, timers, ops, streak, lastTick, rejected, runVars, timeVars>>

\* rescheduleTask resumes: if (task && task.enable) scheduleTask(task)
ReschedResume(c) ==
    /\ c.pc = "resched_resume"
    /\ LET task == c.read IN
         IF task # NoTask /\ task.enable
         THEN /\ SetRegistry(ScheduleTask(Registry, task))
              /\ streak' = StreakAfterSchedule(JobName(task.id, task.tenantId))
         ELSE UNCHANGED <<cronJobs, timers, streak>>
    /\ calls' = Return(c)
    /\ UNCHANGED <<taskStore, taskDocs, ops, lastTick, rejected, runVars, timeVars>>

\* loadAllEnabledTasks(), up to its await
LoadAllEnabledTasks ==
    /\ ops < MaxOps
    /\ ops' = ops + 1
    /\ calls' = Issue(NewCall("loadAllEnabledTasks", "all", "load_find", DisableDto))
    /\ UNCHANGED <<taskStore, taskDocs, cronJobs, timers, streak, lastTick, rejected, runVars, timeVars>>

\* the database answers taskModel.find({ enable: true })
LoadFind(c) ==
    /\ c.pc = "load_find"
    /\ calls' = Move(c, [c EXCEPT !.pc = "load_resume",
                                  !.loaded = {taskStore[t] : t \in {u \in Tenants :
                                      taskStore[u] # NoTask /\ taskStore[u].enable}}])
    /\ UNCHANGED <<taskStore, taskDocs, cronJobs, timers, ops, streak, lastTick, rejected, runVars, timeVars>>

\* for (const task of tasks) this.scheduleTask(task)
RECURSIVE ScheduleAll(_, _)
ScheduleAll(R, tasks) ==
    IF tasks = {} THEN R
    ELSE LET task == CHOOSE x \in tasks : TRUE
         IN  ScheduleAll(ScheduleTask(R, task), tasks \ {task})

\* loadAllEnabledTasks resumes and schedules every task it read
LoadResume(c) ==
    /\ c.pc = "load_resume"
    /\ SetRegistry(ScheduleAll(Registry, c.loaded))
    /\ streak' = [n \in JobNames |->
           IF \E task \in c.loaded : JobName(task.id, task.tenantId) = n
           THEN StreakAfterSchedule(n)[n] ELSE streak[n]]
    /\ calls' = Return(c)
    /\ UNCHANGED <<taskStore, taskDocs, ops, lastTick, rejected, runVars, timeVars>>

\* loadAllEnabledTasks resumes; scheduleTask(bad) throws in new CronJob after
\* the tasks in done have been scheduled: the catch around the loop ends it
LoadResumeThrows(c) ==
    /\ c.pc = "load_resume"
    /\ faults < MaxFaults
    /\ faults' = faults + 1
    /\ \E bad \in c.loaded : \E done \in SUBSET (c.loaded \ {bad}) :
           LET R == ScheduleAll(Registry, done)
           IN  /\ SetRegistry(UnscheduleTask(R, bad.id, bad.tenantId))
               /\ streak' = [n \in JobNames |->
                      IF \E task \in done : JobName(task.id, task.tenantId) = n
                      THEN StreakAfterSchedule(n)[n]
                      ELSE IF n = JobName(bad.id, bad.tenantId) THEN 0
                      ELSE streak[n]]
    /\ calls' = Return(c)
    /\ UNCHANGED <<taskStore, taskDocs, ops, lastTick, rejected, retryLimit, runs, exportTasks,
                   exportCount, records, emails, timeVars>>

\* a direct scheduleTask(task) with a task document of the tenant
DirectScheduleTask(tenantId, dto) ==
    /\ ops < MaxOps
    /\ ops' = ops + 1
    /\ LET task == EnableOrUpdateTask(taskStore, dto, tenantId)[tenantId] IN
         /\ SetRegistry(ScheduleTask(Registry, task))
         /\ streak' = StreakAfterSchedule(JobName(task.id, task.tenantId))
    /\ UNCHANGED <<taskStore, taskDocs, calls, lastTick, rejected, runVars, timeVars>>

\* a direct unscheduleTask(taskId, tenantId)
DirectUnscheduleTask(tenantId) ==
    /\ ops < MaxOps
    /\ ops' = ops + 1
    /\ SetRegistry(UnscheduleTask(Registry, SYSTEM_TASK_ID, tenantId))
    /\ streak' = StreakAfterDelete(JobName(SYSTEM_TASK_ID, tenantId))
    /\ UNCHANGED <<taskStore, taskDocs, calls, lastTick, rejected, runVars, timeVars>>

\* onModuleDestroy(): clearAllJobs()
OnModuleDestroy ==
    /\ ops < MaxOps
    /\ ops' = ops + 1
    /\ SetRegistry(ClearAllJobs(Registry))
    /\ streak' = [n \in JobNames |-> 0]
    /\ UNCHANGED <<taskStore, taskDocs, calls, lastTick, rejected, runVars, timeVars>>

\* the cron expression of a key comes due: every started CronJob of that name
\* runs its onTick callback, which calls executeTask(task) once
CronTick(name) ==
    /\ TimersOf(name) # {}
    /\ lastTick' = [name |-> name, started |-> Cardinality(TimersOf(name)),
                    streak |-> streak[name]]
    /\ UNCHANGED <<taskStore, taskDocs, cronJobs, timers, calls, ops, streak, rejected, runVars, timeVars>>

InitRegistry ==
    /\ taskStore = [t \in Tenants |-> NoTask]
    /\ cronJobs = [n \in JobNames |-> NoJob]
    /\ timers = {}
    /\ calls = EmptyBag
    /\ taskDocs = StoredCount(taskStore)
    /\ ops = 0
    /\ streak = [n \in JobNames |-> 0]
    /\ lastTick = [name |-> "none", started |-> 0, streak |-> 0]
    /\ rejected = {}
    /\ retryLimit = EXPORT_RETRY_COUNT
    /\ runs = <<>>
    /\ exportTasks = <<>>
    /\ exportCount = 0
    /\ records = <<>>
    /\ emails = <<>>
    /\ faults = 0
    /\ timeRange = NoRange

CallSteps ==
    \E c \in InFlight :
        \/ DisableUpsert(c)
        \/ DisableResume(c)
        \/ EnableUpsert(c)
        \/ EnableResume(c)
        \/ ReschedFind(c)
        \/ ReschedResume(c)

NextUpdate ==
    \/ \E t \in Tenants, dto \in Dtos : CreateOrUpdate(t, dto)
    \/ CallSteps
    \/ \E n \in JobNames : CronTick(n)

NextRegistry ==
    \/ \E t \in Tenants, dto \in Dtos : CreateOrUpdate(t, dto)
    \/ CallSteps
    \/ \E t \in Tenants : RescheduleTask(t)
    \/ LoadAllEnabledTasks
    \/ \E c \in InFlight : LoadFind(c) \/ LoadResume(c)
    \/ \E t \in Tenants, dto \in EnableDtos : DirectScheduleTask(t, dto)
    \/ \E t \in Tenants : DirectUnscheduleTask(t)
    \/ OnModuleDestroy
    \/ \E n \in JobNames : CronTick(n)

\* every interleaving of the registry operations
SpecRegistry == InitRegistry /\ [][NextRegistry]_vars
\* every interleaving of createOrUpdate calls only
SpecUpdate == InitRegistry /\ [][NextUpdate]_vars

(***************************************************************************)
(* One run: executeTask(task).  A run is a record; pc names the await the  *)
(* run is suspended at.                                                    *)
(***************************************************************************)
NoRec == [none |-> TRUE]
NoBranch == <<"none">>
\* an ExportTask without filePath
NoPath == <<>>
RunIds == DOMAIN runs

PageId(i) == <<"page", i>>
BranchId(i) == <<"branch", i>>
Pages(n) == [i \in 1..n |-> PageId(i)]
Branches(n) == [i \in 1..n |-> BranchId(i)]

\* createExecutionRecord: the new TaskExecutionRecord document
InitialRecord(task) ==
    [taskId |-> task.id, tenantId |-> task.tenantId, status |-> "success",
     emailStatus |-> "not_sent", recipients |-> task.recipient,
     totalExports |-> 0, successfulExports |-> 0, emailAttachments |-> <<>>,
     endTime |-> FALSE, errorMessage |-> FALSE, errorStack |-> FALSE,
     emailErrorMessage |-> FALSE]

NewRun(task, caller) ==
    [pc |-> "create_record", task |-> task, caller |-> caller,
     rec |-> NoRec, recId |-> 0,
     pageIdx |-> 0, created |-> <<>>, brIdx |-> 0, cur |-> 0,
     retryCount |-> 0, polls |-> 0, successes |-> <<>>, okPairs |-> {},
     error |-> FALSE, outcome |-> "none", caught |-> FALSE,
     att |-> [creates |-> 0, allFailed |-> TRUE, threw |-> FALSE, delays |-> <<>>],
     last |-> [result |-> "none", creates |-> 0, allFailed |-> TRUE, threw |-> FALSE,
              delays |-> <<>>],
     createFailed |-> FALSE]

\* the branch of the i-th task created for a page:
\* task.branchIds && task.branchIds.length > 0 ? task.branchIds[i] : undefined
BranchOf(task, i) == IF Len(task.branchIds) > 0 THEN task.branchIds[i] ELSE NoBranch

\* a createExportTask that creates two documents when branchIds is empty
WantedForTwoWithoutBranch(task) == IF Len(task.branchIds) > 0 THEN Len(task.branchIds) ELSE 2

\* number of documents one createExportTask call for a page creates: one per
\* branchId, or a single one when branchIds is empty
WantedFor(task) == IF Len(task.branchIds) > 0 THEN Len(task.branchIds) ELSE 1

\* new this.exportTaskModel({... status: PENDING}) as saved by createExportTask;
\* run, page, branch and attempt record which (page, branch) pair and which
\* attempt the document was created for
NewExportTask(r, tenantId, page, branch, attempt) ==
    [status |-> "pending", filePath |-> NoPath, tenantId |-> tenantId,
     run |-> r, page |-> page, branch |-> branch, attempt |-> attempt]

\* a save that writes the oldest record of the task instead of the run's own
SaveRecordOfTask(recs, id, rec) == [recs EXCEPT ![1] = rec]

\* executionRecord.save()
SaveRecord(recs, id, rec) == [recs EXCEPT ![id] = rec]

\* an executeTask that counts every created sub-task as successful
ToSaveSuccessfulCountsAll(run) ==
    [run EXCEPT !.pc = "save_successful",
                !.rec.successfulExports = run.rec.totalExports]

\* createAndWaitForExportTasks returned: successfulExports is set and the
\* record is about to be saved (executeTask lines 216-217)
ToSaveSuccessful(run) ==
    [run EXCEPT !.pc = "save_successful",
                !.rec.successfulExports = Len(run.successes)]

\* createExportTasksForPage returned for the current page: the loop over
\* task.pageIds goes on with the next page, or ends
AfterPage(run) ==
    IF run.pageIdx < Len(run.task.pageIds)
    THEN [run EXCEPT !.pc = "create_tasks", !.pageIdx = @ + 1, !.created = <<>>,
                     !.brIdx = 0, !.cur = 0, !.retryCount = 0, !.polls = 0]
    ELSE ToSaveSuccessful([run EXCEPT !.created = <<>>, !.brIdx = 0, !.cur = 0,
                                      !.retryCount = 0, !.polls = 0])

\* a loop over createdTasks that gives up the page at the first null
AfterBranchNullEndsPage(run, result) ==
    LET run1 == [run EXCEPT !.last = [result |-> result, creates |-> run.att.creates,
                                      allFailed |-> run.att.allFailed,
                                      threw |-> run.att.threw,
                                      delays |-> run.att.delays],
                            !.att = [creates |-> 1, allFailed |-> TRUE, threw |-> FALSE,
                                     delays |-> <<>>]]
    IN  IF run.brIdx < Len(run.created) /\ result # "null"
        THEN [run1 EXCEPT !.pc = "wait", !.brIdx = @ + 1,
                          !.cur = run.created[run.brIdx + 1],
                          !.retryCount = 0, !.polls = 0]
        ELSE AfterPage(run1)

\* waitForSingleExportTask returned result for the current created task: the
\* loop over createdTasks goes on with the next one, or the page is finished
AfterBranch(run, result) ==
    LET run1 == [run EXCEPT !.last = [result |-> result, creates |-> run.att.creates,
                                      allFailed |-> run.att.allFailed,
                                      threw |-> run.att.threw,
                                      delays |-> run.att.delays],
                            !.att = [creates |-> 1, allFailed |-> TRUE, threw |-> FALSE,
                                     delays |-> <<>>]]
    IN  IF run.brIdx < Len(run.created)
        THEN [run1 EXCEPT !.pc = "wait", !.brIdx = @ + 1,
                          !.cur = run.created[run.brIdx + 1],
                          !.retryCount = 0, !.polls = 0]
        ELSE AfterPage(run1)

\* the first wait of a pair starts: waitForSingleExportTask(.., retryCount = 0)
StartWait(run) ==
    [run EXCEPT !.pc = "wait", !.brIdx = 1, !.cur = run.created[1],
                !.retryCount = 0, !.polls = 0,
                !.att = [creates |-> 1, allFailed |-> TRUE, threw |-> FALSE,
                         delays |-> <<>>]]

\* Math.min(a, b)
Min(a, b) == IF a < b THEN a ELSE b

\* the delay, in ms, slept before the retry after a sub-task that ended failed
\* or without a file: Math.min(1000 * Math.pow(2, retryCount), 10000)
RetryDelayAfterFailure(retryCount) == Min(1000 * 2^retryCount, 10000)

\* a backoff without the cap
RetryDelayAfterErrorUncapped(retryCount) == 1000 * 2^retryCount

\* the delay, in ms, slept before the retry after a wait that threw:
\* Math.min(1000 * Math.pow(2, retryCount), 10000)
RetryDelayAfterError(retryCount) == Min(1000 * 2^retryCount, 10000)

\* a driver that retries once more than the limit
AttemptFailedOffByOne(run, limit, delay) ==
    IF run.retryCount <= limit
    THEN [run EXCEPT !.pc = "retry_create", !.att.delays = Append(@, delay)]
    ELSE AfterBranch(run, "null")

\* the attempt failed (status failed, no file, or the wait threw): while
\* retryCount < EXPORT_RETRY_COUNT sleep for delay ms and retry, else resolve to
\* null
AttemptFailed(run, limit, delay) ==
    IF run.retryCount < limit
    THEN [run EXCEPT !.pc = "retry_create", !.att.delays = Append(@, delay)]
    ELSE AfterBranch(run, "null")

\* a driver that lets the error of a failed re-creation escape
RetryCreateFailedEscapes(run) ==
    [run EXCEPT !.last.result = "exception", !.pc = "escaped"]

\* the retry's createExportTask threw: caught, the driver resolves to null
RetryCreateFailed(run) ==
    AfterBranch([run EXCEPT !.att.threw = TRUE, !.att.creates = @ + 1], "null")

\* an executeTask that swallows the error after handleExecutionError
ExecuteTaskSwallows(hadError) == "resolved"

\* executeTask's promise: catch (error) { await handleExecutionError(..); throw error }
ExecuteTaskOutcome(hadError) == IF hadError THEN "rejected" ELSE "resolved"

\* the run ends; the caller's .catch((error) => logger.error(..)) handles a rejection
EndRun(run) ==
    [run EXCEPT !.pc = "done", !.outcome = ExecuteTaskOutcome(run.error),
                !.caught = (ExecuteTaskOutcome(run.error) = "rejected")]

\* handleExecutionError without the recipient test
NotifyFailureAlways(task) == TRUE

\* handleExecutionError: if (task.recipient.length > 0) sendFailureNotification
NotifyFailure(task) == task.recipient # {}

\* handleExecutionError up to its first await
HandleExecutionError(run) ==
    IF run.rec = NoRec
    THEN EndRun([run EXCEPT !.error = TRUE])
    ELSE LET run1 == [run EXCEPT !.error = TRUE, !.rec.status = "failed",
                                 !.rec.endTime = TRUE, !.rec.errorMessage = TRUE,
                                 !.rec.errorStack = TRUE]
         IN  IF NotifyFailure(run.task)
             THEN [run1 EXCEPT !.pc = "fail_notify"]
             ELSE [run1 EXCEPT !.pc = "fail_save"]

\* saveExecutionRecordSuccess up to its await
ToFinalize(run) ==
    [run EXCEPT !.pc = "finalize", !.rec.status = "success", !.rec.endTime = TRUE]

\* a sendReportEmails that tests the recipients only
SkipReportWithoutRecipientOnly(task, successes) == task.recipient = {}

\* sendReportEmails: no successful export, or no recipient: emailStatus = not_sent
SkipReport(task, successes) == Len(successes) = 0 \/ task.recipient = {}

\* sendReportEmails up to its await, then saveExecutionRecordSuccess
ToSendReport(run) ==
    IF SkipReport(run.task, run.successes)
    THEN ToFinalize([run EXCEPT !.rec.emailStatus = "not_sent"])
    ELSE [run EXCEPT !.pc = "send"]

\* ScheduledTaskEmailService.getAbsoluteFilePath
GetAbsoluteFilePath(relativePath) ==
    IF relativePath[1] = "reports"
    THEN <<"cwd", "uploads", "reports", relativePath[2]>>
    ELSE <<"cwd", "uploads", "reports">> \o relativePath

\* ScheduledTaskEmailService.generateReportFileName: the page, then the branch
\* or 'default' when there is none (the date part is left out)
GenerateReportFileName(pageId, branchId) ==
    <<"report", pageId, IF branchId = NoBranch THEN "default" ELSE branchId>>

\* ScheduledTaskEmailService.sendReportEmails: one attachment per successful
\* export that has a filePath
RECURSIVE Attachments(_)
Attachments(successes) ==
    IF successes = <<>> THEN <<>>
    ELSE LET e == Head(successes)
         IN  (IF e.task.filePath # NoPath
              THEN <<[filename |-> GenerateReportFileName(e.pageId, e.branchId), path |-> e.task.filePath,
                      absolutePath |-> GetAbsoluteFilePath(e.task.filePath)]>>
              ELSE <<>>) \o Attachments(Tail(successes))

\* the documents some run will still read: the one a wait polls and the ones
\* created for the page whose wait has not started
Referenced(rs) ==
    UNION { IF rs[r].pc \in {"create_tasks", "save_total"}
            THEN {rs[r].created[i] : i \in 1..Len(rs[r].created)}
            ELSE IF rs[r].pc = "wait"
            THEN {rs[r].cur} \cup {rs[r].created[i] : i \in rs[r].brIdx..Len(rs[r].created)}
            ELSE IF rs[r].pc = "retry_create"
            THEN {rs[r].created[i] : i \in (rs[r].brIdx + 1)..Len(rs[r].created)}
            ELSE {}
          : r \in DOMAIN rs }

\* the model keeps a document while it can change (pending, processing) or be
\* read by a run; a terminal document that no run reads again is only counted
Live(tasks, rs) ==
    [i \in {k \in DOMAIN tasks : tasks[k].status \in {"pending", "processing"}
                                 \/ k \in Referenced(rs)} |-> tasks[i]]

\* run r goes on as run, the export documents become tasks
Step(r, run, tasks) ==
    /\ runs' = [runs EXCEPT ![r] = run]
    /\ exportTasks' = Live(tasks, runs')

\* a collaborator throws
Throws == faults < MaxFaults /\ faults' = faults + 1

\* triggerTaskExecution(taskId, tenantId): no task is stored for the tenant, or
\* the stored task is disabled; the call throws
TriggerTaskExecutionThrows(tenantId) ==
    /\ IF taskStore[tenantId] = NoTask THEN TRUE ELSE ~taskStore[tenantId].enable
    /\ rejected' = rejected \cup {Rejection("triggerTaskExecution", tenantId)}
    /\ UNCHANGED <<taskStore, taskDocs, cronJobs, timers, calls, ops, streak, lastTick, runVars, timeVars>>

\* triggerTaskExecution that does not look at the enable flag
TriggerTaskExecutionIgnoresEnable(r, tenantId) ==
    /\ runs[r].pc = "idle"
    /\ taskStore[tenantId] # NoTask
    /\ Step(r, NewRun(taskStore[tenantId], "trigger"), exportTasks)
    /\ UNCHANGED <<regVars, retryLimit, exportCount, records, emails, faults, timeVars>>

\* triggerTaskExecution(taskId, tenantId): the task exists and is enabled;
\* executeTask(task) is started and not awaited
TriggerTaskExecution(r, tenantId) ==
    /\ runs[r].pc = "idle"
    /\ taskStore[tenantId] # NoTask
    /\ taskStore[tenantId].enable
    /\ Step(r, NewRun(taskStore[tenantId], "trigger"), exportTasks)
    /\ UNCHANGED <<regVars, retryLimit, exportCount, records, emails, faults, timeVars>>

\* createExecutionRecord: the initial record is saved; then, with no await in
\* between, calculateTimeRange and the first step of createAndWaitForExportTasks
CreateExecutionRecord(r) ==
    /\ runs[r].pc = "create_record"
    /\ LET rec == InitialRecord(runs[r].task)
           run == [runs[r] EXCEPT !.rec = rec, !.recId = Len(records) + 1]
       IN  /\ records' = Append(records, rec)
           /\ Step(r, IF Len(run.task.pageIds) = 0
                      THEN ToSaveSuccessful(run)
                      ELSE AfterPage(run), exportTasks)
    /\ UNCHANGED <<regVars, retryLimit, exportCount, emails, faults, timeVars>>

\* createExecutionRecord: the save throws; executionRecord stays null
CreateExecutionRecordThrows(r) ==
    /\ runs[r].pc = "create_record"
    /\ Throws
    /\ Step(r, HandleExecutionError(runs[r]), exportTasks)
    /\ UNCHANGED <<regVars, retryLimit, exportCount, records, emails, timeVars>>

\* a createExportTasksForPage that raises totalExports after every sub-task by
\* the number created so far for the page
CreateExportTaskCountsEach(r) ==
    /\ runs[r].pc = "create_tasks"
    /\ LET run  == runs[r]
           i    == Len(run.created) + 1
           id   == exportCount + 1
           doc  == NewExportTask(r, run.task.tenantId, run.task.pageIds[run.pageIdx],
                                 BranchOf(run.task, i), 0)
           run1 == [run EXCEPT !.created = Append(@, id),
                               !.rec.totalExports = @ + i]
       IN  /\ exportCount' = id
           /\ Step(r, IF i = WantedFor(run.task)
                      THEN [run1 EXCEPT !.pc = "save_total"]
                      ELSE run1, exportTasks @@ (id :> doc))
    /\ UNCHANGED <<regVars, retryLimit, records, emails, faults, timeVars>>

\* reportExportService.createExportTask for the current page: the next document
\* is saved (status pending) and handed to the limiter; after the last one the
\* call returns, totalExports is raised and the record is about to be saved
CreateExportTask(r) ==
    /\ runs[r].pc = "create_tasks"
    /\ LET run  == runs[r]
           i    == Len(run.created) + 1
           id   == exportCount + 1
           doc  == NewExportTask(r, run.task.tenantId, run.task.pageIds[run.pageIdx],
                                 BranchOf(run.task, i), 0)
           run1 == [run EXCEPT !.created = Append(@, id)]
       IN  /\ exportCount' = id
           /\ Step(r, IF i = WantedFor(run.task)
                      THEN [run1 EXCEPT !.pc = "save_total",
                                        !.rec.totalExports = @ + Len(run1.created)]
                      ELSE run1, exportTasks @@ (id :> doc))
    /\ UNCHANGED <<regVars, retryLimit, records, emails, faults, timeVars>>

\* createExportTask throws (daily limit, validation, database): caught by
\* createExportTasksForPage, which returns [] for the page
CreateExportTaskThrows(r) ==
    /\ runs[r].pc = "create_tasks"
    /\ Throws
    /\ Step(r, AfterPage([runs[r] EXCEPT !.createFailed = TRUE]), exportTasks)
    /\ UNCHANGED <<regVars, retryLimit, exportCount, records, emails, timeVars>>

\* executionRecord.save() after totalExports was raised; the waits start
SaveTotalExports(r) ==
    /\ runs[r].pc = "save_total"
    /\ records' = SaveRecord(records, runs[r].recId, runs[r].rec)
    /\ Step(r, StartWait(runs[r]), exportTasks)
    /\ UNCHANGED <<regVars, retryLimit, exportCount, emails, faults, timeVars>>

\* that save throws: caught by createExportTasksForPage, which returns []
SaveTotalExportsThrows(r) ==
    /\ runs[r].pc = "save_total"
    /\ Throws
    /\ Step(r, AfterPage(runs[r]), exportTasks)
    /\ UNCHANGED <<regVars, retryLimit, exportCount, records, emails, timeVars>>

\* a waitForTaskCompletion that also returns a sub-task that is processing
PollReturnsProcessing(r) ==
    /\ runs[r].pc = "wait"
    /\ LET run == runs[r]
           doc == exportTasks[run.cur]
       IN  IF doc.status \in {"completed", "failed", "processing"}
           THEN Step(r, IF doc.status = "completed" /\ doc.filePath # NoPath
                        THEN AfterBranch(
                               [run EXCEPT !.successes = Append(@,
                                   [task |-> doc,
                                    pageId |-> run.task.pageIds[run.pageIdx],
                                    branchId |-> BranchOf(run.task, run.brIdx)]),
                                           !.okPairs = @ \cup {<<run.task.pageIds[run.pageIdx],
                                                                   BranchOf(run.task, run.brIdx)>>},
                                           !.att.allFailed = FALSE],
                               "success")
                        ELSE AttemptFailed(
                               [run EXCEPT !.att.allFailed = @ /\ doc.status = "failed"],
                               retryLimit, RetryDelayAfterFailure(run.retryCount)),
                     exportTasks)
           ELSE /\ run.polls + 1 < MaxPolls
                /\ Step(r, [run EXCEPT !.polls = @ + 1], exportTasks)
    /\ UNCHANGED <<regVars, retryLimit, exportCount, records, emails, faults, timeVars>>

\* waitForTaskCompletion: one findOne of the loop.  A terminal status is
\* returned to waitForSingleExportTask; otherwise the loop sleeps and polls again
Poll(r) ==
    /\ runs[r].pc = "wait"
    /\ LET run == runs[r]
           doc == exportTasks[run.cur]
       IN  IF doc.status \in {"completed", "failed"}
           THEN Step(r, IF doc.status = "completed" /\ doc.filePath # NoPath
                        THEN AfterBranch(
                               [run EXCEPT !.successes = Append(@,
                                   [task |-> doc,
                                    pageId |-> run.task.pageIds[run.pageIdx],
                                    branchId |-> BranchOf(run.task, run.brIdx)]),
                                           !.okPairs = @ \cup {<<run.task.pageIds[run.pageIdx],
                                                                   BranchOf(run.task, run.brIdx)>>},
                                           !.att.allFailed = FALSE],
                               "success")
                        ELSE AttemptFailed(
                               [run EXCEPT !.att.allFailed = @ /\ doc.status = "failed"],
                               retryLimit, RetryDelayAfterFailure(run.retryCount)),
                     exportTasks)
           ELSE /\ run.polls + 1 < MaxPolls
                /\ Step(r, [run EXCEPT !.polls = @ + 1], exportTasks)
    /\ UNCHANGED <<regVars, retryLimit, exportCount, records, emails, faults, timeVars>>

\* the last poll before the maximum wait time has elapsed finds the sub-task
\* still pending or processing: waitForTaskCompletion throws the timeout error
PollTimesOut(r) ==
    /\ runs[r].pc = "wait"
    /\ runs[r].polls + 1 >= MaxPolls
    /\ exportTasks[runs[r].cur].status \in {"pending", "processing"}
    /\ Step(r, AttemptFailed([runs[r] EXCEPT !.att.allFailed = FALSE], retryLimit,
                              RetryDelayAfterError(runs[r].retryCount)),
            exportTasks)
    /\ UNCHANGED <<regVars, retryLimit, exportCount, records, emails, faults, timeVars>>

\* findOne throws, or finds no document: the wait throws
PollThrows(r) ==
    /\ runs[r].pc = "wait"
    /\ Throws
    /\ Step(r, AttemptFailed([runs[r] EXCEPT !.att.allFailed = FALSE], retryLimit,
                              RetryDelayAfterError(runs[r].retryCount)),
            exportTasks)
    /\ UNCHANGED <<regVars, retryLimit, exportCount, records, emails, timeVars>>

\* a retry that creates the sub-task for the first branch of the task
RetryCreateFirstBranch(r) ==
    /\ runs[r].pc = "retry_create"
    /\ LET run == runs[r]
           id  == exportCount + 1
           doc == NewExportTask(r, run.task.tenantId, run.task.pageIds[run.pageIdx],
                                BranchOf(run.task, 1), run.retryCount + 1)
       IN  /\ exportCount' = id
           /\ Step(r, [run EXCEPT !.pc = "wait", !.cur = id, !.retryCount = @ + 1,
                                  !.polls = 0, !.att.creates = @ + 1],
                   exportTasks @@ (id :> doc))
    /\ UNCHANGED <<regVars, retryLimit, records, emails, faults, timeVars>>

\* after the backoff sleep the sub-task is created again for the same page and
\* branch (branchIds: branchId ? [branchId] : undefined), and the driver
\* recurses with retryCount + 1
RetryCreate(r) ==
    /\ runs[r].pc = "retry_create"
    /\ LET run == runs[r]
           id  == exportCount + 1
           doc == NewExportTask(r, run.task.tenantId, run.task.pageIds[run.pageIdx],
                                BranchOf(run.task, run.brIdx), run.retryCount + 1)
       IN  /\ exportCount' = id
           /\ Step(r, [run EXCEPT !.pc = "wait", !.cur = id, !.retryCount = @ + 1,
                                  !.polls = 0, !.att.creates = @ + 1],
                   exportTasks @@ (id :> doc))
    /\ UNCHANGED <<regVars, retryLimit, records, emails, faults, timeVars>>

\* a retry whose createExportTask throws and that sleeps and tries again while
\* retries are left
RetryCreateThrowsTriesAgain(r) ==
    /\ runs[r].pc = "retry_create"
    /\ Throws
    /\ LET run == [runs[r] EXCEPT !.retryCount = @ + 1, !.att.threw = TRUE,
                                  !.att.creates = @ + 1]
       IN  Step(r, AttemptFailed(run, retryLimit, RetryDelayAfterError(run.retryCount)),
                exportTasks)
    /\ UNCHANGED <<regVars, retryLimit, exportCount, records, emails, timeVars>>

\* the retry's createExportTask throws
RetryCreateThrows(r) ==
    /\ runs[r].pc = "retry_create"
    /\ Throws
    /\ Step(r, RetryCreateFailed(runs[r]), exportTasks)
    /\ UNCHANGED <<regVars, retryLimit, exportCount, records, emails, timeVars>>

\* executionRecord.save() with successfulExports set (executeTask line 217),
\* then sendReportEmails up to its await
SaveSuccessfulExports(r) ==
    /\ runs[r].pc = "save_successful"
    /\ records' = SaveRecord(records, runs[r].recId, runs[r].rec)
    /\ Step(r, ToSendReport(runs[r]), exportTasks)
    /\ UNCHANGED <<regVars, retryLimit, exportCount, emails, faults, timeVars>>

\* that save throws: executeTask's catch calls handleExecutionError
SaveSuccessfulExportsThrows(r) ==
    /\ runs[r].pc = "save_successful"
    /\ Throws
    /\ Step(r, HandleExecutionError(runs[r]), exportTasks)
    /\ UNCHANGED <<regVars, retryLimit, exportCount, records, emails, timeVars>>

\* the message sendConsolidatedReportEmail hands to EmailService.sendEmail
ReportMessage(r, run, ok) ==
    LET att == Attachments(run.successes)
    IN  [kind |-> "report", run |-> r, ok |-> ok, to |-> run.task.recipient,
         attachments |-> [i \in 1..Len(att) |->
             [filename |-> att[i].filename, path |-> att[i].absolutePath]]]

\* a sendReportEmails that sends one message per successful export
SendReportEmailsPerExport(r) ==
    /\ runs[r].pc = "send"
    /\ LET run == runs[r]
           att == Attachments(run.successes)
       IN  /\ emails' = emails \o [i \in 1..Len(att) |->
                              [kind |-> "report", run |-> r, ok |-> TRUE,
                               to |-> run.task.recipient,
                               attachments |-> <<[filename |-> att[i].filename,
                                                  path |-> att[i].absolutePath]>>]]
           /\ Step(r, ToFinalize([run EXCEPT !.rec.emailStatus = "success",
                                             !.rec.emailAttachments = [i \in 1..Len(att) |->
                                                 [filename |-> att[i].filename,
                                                  path |-> att[i].path]]]),
                   exportTasks)
    /\ UNCHANGED <<regVars, retryLimit, exportCount, records, faults, timeVars>>

\* emailService.sendReportEmails: one sendEmail with every attachment
SendReportEmails(r) ==
    /\ runs[r].pc = "send"
    /\ LET run == runs[r]
           att == Attachments(run.successes)
       IN  /\ emails' = Append(emails, ReportMessage(r, run, TRUE))
           /\ Step(r, ToFinalize([run EXCEPT !.rec.emailStatus = "success",
                                             !.rec.emailAttachments = [i \in 1..Len(att) |->
                                                 [filename |-> att[i].filename,
                                                  path |-> att[i].path]]]),
                   exportTasks)
    /\ UNCHANGED <<regVars, retryLimit, exportCount, records, faults, timeVars>>

\* a sendReportEmails whose failure goes to executeTask's catch
SendReportEmailsThrowsFailsRun(r) ==
    /\ runs[r].pc = "send"
    /\ Throws
    /\ emails' = Append(emails, ReportMessage(r, runs[r], FALSE))
    /\ Step(r, HandleExecutionError([runs[r] EXCEPT !.rec.emailStatus = "failed",
                                                    !.rec.emailErrorMessage = TRUE]),
            exportTasks)
    /\ UNCHANGED <<regVars, retryLimit, exportCount, records, timeVars>>

\* the transport throws: sendReportEmails returns success = false
SendReportEmailsThrows(r) ==
    /\ runs[r].pc = "send"
    /\ Throws
    /\ emails' = Append(emails, ReportMessage(r, runs[r], FALSE))
    /\ Step(r, ToFinalize([runs[r] EXCEPT !.rec.emailStatus = "failed",
                                          !.rec.emailErrorMessage = TRUE]),
            exportTasks)
    /\ UNCHANGED <<regVars, retryLimit, exportCount, records, timeVars>>

\* an executeTask in which a statement after the final save throws, so that its
\* catch runs handleExecutionError on the record that was just saved
SaveExecutionRecordSuccessThenThrows(r) ==
    /\ runs[r].pc = "finalize"
    /\ records' = SaveRecord(records, runs[r].recId, runs[r].rec)
    /\ Step(r, HandleExecutionError(runs[r]), exportTasks)
    /\ UNCHANGED <<regVars, retryLimit, exportCount, emails, faults, timeVars>>

\* saveExecutionRecordSuccess: the record is saved and executeTask returns
SaveExecutionRecordSuccess(r) ==
    /\ runs[r].pc = "finalize"
    /\ records' = SaveRecord(records, runs[r].recId, runs[r].rec)
    /\ Step(r, EndRun(runs[r]), exportTasks)
    /\ UNCHANGED <<regVars, retryLimit, exportCount, emails, faults, timeVars>>

\* that save throws: logged and swallowed, executeTask returns
SaveExecutionRecordSuccessThrows(r) ==
    /\ runs[r].pc = "finalize"
    /\ Throws
    /\ Step(r, EndRun(runs[r]), exportTasks)
    /\ UNCHANGED <<regVars, retryLimit, exportCount, records, emails, timeVars>>

\* the message sendFailureNotification hands to EmailService.sendEmail
FailureMessage(r, run, ok) ==
    [kind |-> "failure", run |-> r, ok |-> ok, to |-> run.task.recipient,
     attachments |-> <<>>]

\* handleExecutionError: sendFailureNotification sends the failure mail
SendFailureNotification(r) ==
    /\ runs[r].pc = "fail_notify"
    /\ emails' = Append(emails, FailureMessage(r, runs[r], TRUE))
    /\ Step(r, [runs[r] EXCEPT !.pc = "fail_save", !.rec.emailStatus = "success"],
            exportTasks)
    /\ UNCHANGED <<regVars, retryLimit, exportCount, records, faults, timeVars>>

\* the transport throws: sendFailureNotification logs and swallows the error,
\* so handleExecutionError goes on as after a successful send
SendFailureNotificationThrows(r) ==
    /\ runs[r].pc = "fail_notify"
    /\ Throws
    /\ emails' = Append(emails, FailureMessage(r, runs[r], FALSE))
    /\ Step(r, [runs[r] EXCEPT !.pc = "fail_save", !.rec.emailStatus = "success"],
            exportTasks)
    /\ UNCHANGED <<regVars, retryLimit, exportCount, records, timeVars>>

\* handleExecutionError: the failed record is saved; executeTask rethrows
SaveFailedRecord(r) ==
    /\ runs[r].pc = "fail_save"
    /\ records' = SaveRecord(records, runs[r].recId, runs[r].rec)
    /\ Step(r, EndRun(runs[r]), exportTasks)
    /\ UNCHANGED <<regVars, retryLimit, exportCount, emails, faults, timeVars>>

\* that save throws: logged and swallowed; executeTask rethrows
SaveFailedRecordThrows(r) ==
    /\ runs[r].pc = "fail_save"
    /\ Throws
    /\ Step(r, EndRun(runs[r]), exportTasks)
    /\ UNCHANGED <<regVars, retryLimit, exportCount, records, emails, timeVars>>

(***************************************************************************)
(* The export collaborator's workers: processExportTask under pLimit       *)
(***************************************************************************)
Processing == {i \in DOMAIN exportTasks : exportTasks[i].status = "processing"}
Pending == {i \in DOMAIN exportTasks : exportTasks[i].status = "pending"}

\* the limiter starts the oldest queued task when fewer than
\* MAX_CONCURRENT_EXPORTS are running: status becomes processing
ProcessExportTask(i) ==
    /\ i \in Pending
    /\ \A k \in Pending : i <= k
    /\ Cardinality(Processing) < MAX_CONCURRENT_EXPORTS
    /\ exportTasks' = [exportTasks EXCEPT ![i].status = "processing"]
    /\ UNCHANGED <<regVars, retryLimit, exportCount, runs, records, emails, faults, timeVars>>

\* the worker delivered the file: status completed, filePath set
ExportCompleted(i) ==
    /\ i \in Processing
    /\ exportTasks' = Live([exportTasks EXCEPT ![i].status = "completed",
                                               ![i].filePath = <<"reports", i>>], runs)
    /\ UNCHANGED <<regVars, retryLimit, exportCount, runs, records, emails, faults, timeVars>>

\* the worker reported success with an empty file path, which
\* getRelativeFilePath returns as it is: status completed, filePath empty
ExportCompletedWithoutFile(i) ==
    /\ i \in Processing
    /\ exportTasks' = Live([exportTasks EXCEPT ![i].status = "completed"], runs)
    /\ UNCHANGED <<regVars, retryLimit, exportCount, runs, records, emails, faults, timeVars>>

\* a timeout that also marks a sub-task failed after it was completed
ExportFailedLate(i) ==
    /\ i \in Processing \/ exportTasks[i].status = "completed"
    /\ exportTasks' = Live([exportTasks EXCEPT ![i].status = "failed"], runs)
    /\ UNCHANGED <<regVars, retryLimit, exportCount, runs, records, emails, faults, timeVars>>

\* the worker failed or timed out: status failed
ExportFailed(i) ==
    /\ i \in Processing
    /\ exportTasks' = Live([exportTasks EXCEPT ![i].status = "failed"], runs)
    /\ UNCHANGED <<regVars, retryLimit, exportCount, runs, records, emails, faults, timeVars>>

\* the task that is run: pageIds, branchIds and recipient of every length up to
\* the bounds
RunTasks ==
    { [id |-> SYSTEM_TASK_ID, tenantId |-> "T1", enable |-> TRUE,
       frequency |-> "daily", time |-> [hh |-> 9, mm |-> 0],
       recipient |-> rc, pageIds |-> Pages(p), branchIds |-> Branches(b),
       cronExpression |-> CronGenerate("daily", [hh |-> 9, mm |-> 0])]
      : rc \in {{}, {"a@x.com"}}, p \in 0..MaxPages, b \in 0..MaxBranches }

IdleRun == [pc |-> "idle"]

InitRun ==
    /\ \E task \in RunTasks :
           taskStore = [t \in Tenants |-> IF t = task.tenantId THEN task ELSE NoTask]
    /\ cronJobs = [n \in JobNames |-> NoJob]
    /\ timers = {}
    /\ calls = EmptyBag
    /\ taskDocs = StoredCount(taskStore)
    /\ ops = 0
    /\ streak = [n \in JobNames |-> 0]
    /\ lastTick = [name |-> "none", started |-> 0, streak |-> 0]
    /\ rejected = {}
    /\ retryLimit \in 0..MaxRetry
    /\ runs = [r \in {1} |-> IdleRun]
    /\ exportTasks = <<>>
    /\ exportCount = 0
    /\ records = <<>>
    /\ emails = <<>>
    /\ faults = 0
    /\ timeRange = NoRange

\* one step of run r: the continuation after the await it is suspended at
RunStep(r) ==
    \/ CreateExecutionRecord(r)
    \/ CreateExecutionRecordThrows(r)
    \/ CreateExportTask(r)
    \/ CreateExportTaskThrows(r)
    \/ SaveTotalExports(r)
    \/ SaveTotalExportsThrows(r)
    \/ Poll(r)
    \/ PollTimesOut(r)
    \/ PollThrows(r)
    \/ RetryCreate(r)
    \/ RetryCreateThrows(r)
    \/ SaveSuccessfulExports(r)
    \/ SaveSuccessfulExportsThrows(r)
    \/ SendReportEmails(r)
    \/ SendReportEmailsThrows(r)
    \/ SaveExecutionRecordSuccess(r)
    \/ SaveExecutionRecordSuccessThrows(r)
    \/ SendFailureNotification(r)
    \/ SendFailureNotificationThrows(r)
    \/ SaveFailedRecord(r)
    \/ SaveFailedRecordThrows(r)

\* one step of the export collaborator's workers
WorkerStep ==
    \E i \in DOMAIN exportTasks :
        \/ ProcessExportTask(i)
        \/ ExportCompleted(i)
        \/ ExportCompletedWithoutFile(i)
        \/ ExportFailed(i)

NextRun ==
    \/ \E r \in RunIds, t \in Tenants : TriggerTaskExecution(r, t)
    \/ \E r \in RunIds : RunStep(r)
    \/ WorkerStep

\* one manually triggered run of a stored task, with the export workers
SpecRun == InitRun /\ [][NextRun]_vars

\* a run of a task with at most one page and one branch
InitLive ==
    /\ InitRun
    /\ \A t \in Tenants :
           taskStore[t] # NoTask =>
               (Len(taskStore[t].pageIds) <= 1 /\ Len(taskStore[t].branchIds) <= 1)

\* the event loop resumes a run whose awaited call has returned or thrown and
\* whose sleep has elapsed; the export workers may stall for ever
SpecLive == InitLive /\ [][NextRun]_vars /\ \A r \in {1} : WF_vars(RunStep(r))

(***************************************************************************)
(* A run started by the timer while the registry operations go on          *)
(***************************************************************************)
\* the onTick callback of a started CronJob: this.executeTask(task).catch(..)
\* with the task the job was created with
TimerFires(r, name) ==
    /\ runs[r].pc = "idle"
    /\ \E job \in TimersOf(name) :
           Step(r, NewRun(job.task, "timer"), exportTasks)
    /\ UNCHANGED <<regVars, retryLimit, exportCount, records, emails, faults, timeVars>>

\* the tenants that have a stored task
StoredTenants == {t \in Tenants : taskStore[t] # NoTask}

\* a stored, enabled task with all its pages and no branch dimension has been
\* scheduled: the state after scheduleTask(task)
InitCancel ==
    /\ \E task \in {t \in RunTasks : /\ Len(t.pageIds) = MaxPages
                                     /\ Len(t.branchIds) = 0
                                     /\ t.recipient # {}} :
        /\ taskStore = [t \in Tenants |-> IF t = task.tenantId THEN task ELSE NoTask]
        /\ LET R == ScheduleTask([cronJobs |-> [n \in JobNames |-> NoJob], timers |-> {}],
                                 task)
           IN  cronJobs = R.cronJobs /\ timers = R.timers
    /\ calls = EmptyBag
    /\ taskDocs = StoredCount(taskStore)
    /\ ops = 0
    /\ streak = [n \in JobNames |-> 0]
    /\ lastTick = [name |-> "none", started |-> 0, streak |-> 0]
    /\ rejected = {}
    /\ retryLimit = 1
    /\ runs = [r \in {1} |-> IdleRun]
    /\ exportTasks = <<>>
    /\ exportCount = 0
    /\ records = <<>>
    /\ emails = <<>>
    /\ faults = 0
    /\ timeRange = NoRange

NextCancel ==
    \/ \E r \in RunIds, n \in JobNames : TimerFires(r, n)
    \/ \E r \in RunIds : RunStep(r)
    \/ WorkerStep
    \/ \E t \in StoredTenants : CreateOrUpdate(t, DisableDto)
    \/ \E c \in InFlight :
        \/ DisableUpsert(c)
        \/ DisableResume(c)
        \/ ReschedFind(c)
        \/ ReschedResume(c)
    \/ \E t \in StoredTenants : RescheduleTask(t)
    \/ \E t \in StoredTenants : DirectUnscheduleTask(t)

\* a timer-started run interleaved with unscheduleTask, rescheduleTask and
\* createOrUpdate calls for its key
SpecCancel == InitCancel /\ [][NextCancel]_vars

(***************************************************************************)
(* Startup and shutdown of the process                                     *)
(***************************************************************************)
\* the documents a tenant can have in the store when the process starts
StoredTasks(t) ==
    {NoTask} \cup
    UNION { {EnableOrUpdateTask([u \in Tenants |-> NoTask], dto, t)[t],
             DisableTask(EnableOrUpdateTask([u \in Tenants |-> NoTask], dto, t), t)[t]}
            : dto \in EnableDtos }

\* a new process: nothing is registered and onModuleInit has called
\* loadAllEnabledTasks, which awaits its find
InitStartup ==
    /\ taskStore \in [Tenants -> UNION {StoredTasks(t) : t \in Tenants}]
    /\ \A t \in Tenants : taskStore[t] \in StoredTasks(t)
    /\ cronJobs = [n \in JobNames |-> NoJob]
    /\ timers = {}
    /\ calls = SetToBag({NewCall("loadAllEnabledTasks", "all", "load_find", DisableDto)})
    /\ taskDocs = StoredCount(taskStore)
    /\ ops = 0
    /\ streak = [n \in JobNames |-> 0]
    /\ lastTick = [name |-> "none", started |-> 0, streak |-> 0]
    /\ rejected = {}
    /\ retryLimit = EXPORT_RETRY_COUNT
    /\ runs = <<>>
    /\ exportTasks = <<>>
    /\ exportCount = 0
    /\ records = <<>>
    /\ emails = <<>>
    /\ faults = 0
    /\ timeRange = NoRange

\* app.close(): onModuleDestroy runs once the init hooks have returned
Shutdown == AllCallsCompleted /\ OnModuleDestroy

NextStartup ==
    \/ \E c \in InFlight :
        \/ LoadFind(c)
        \/ LoadResume(c)
        \/ LoadResumeThrows(c)
    \/ \E n \in JobNames : CronTick(n)
    \/ Shutdown

SpecStartup == InitStartup /\ [][NextStartup]_vars

(***************************************************************************)
(* Manual triggers of a stored task                                        *)
(***************************************************************************)
\* a stored task with one page, enabled and scheduled or disabled and not
\* scheduled; two executeTask invocations can be in flight
InitTrigger ==
    /\ \E task \in {t \in RunTasks : /\ Len(t.pageIds) = 1
                                     /\ Len(t.branchIds) = 0
                                     /\ t.recipient # {}},
          enable \in BOOLEAN :
        /\ taskStore = [t \in Tenants |-> IF t = task.tenantId
                                          THEN [task EXCEPT !.enable = enable]
                                          ELSE NoTask]
        /\ LET R0 == [cronJobs |-> [n \in JobNames |-> NoJob], timers |-> {}]
               R  == IF enable THEN ScheduleTask(R0, task) ELSE R0
           IN  cronJobs = R.cronJobs /\ timers = R.timers
    /\ calls = EmptyBag
    /\ taskDocs = StoredCount(taskStore)
    /\ ops = 0
    /\ streak = [n \in JobNames |-> 0]
    /\ lastTick = [name |-> "none", started |-> 0, streak |-> 0]
    /\ rejected = {}
    /\ retryLimit = 1
    /\ runs = [r \in {1, 2} |-> IdleRun]
    /\ exportTasks = <<>>
    /\ exportCount = 0
    /\ records = <<>>
    /\ emails = <<>>
    /\ faults = 0
    /\ timeRange = NoRange

NextTrigger ==
    \/ \E r \in RunIds, t \in Tenants : TriggerTaskExecution(r, t)
    \/ \E t \in Tenants : TriggerTaskExecutionThrows(t)
    \/ \E r \in RunIds : RunStep(r)
    \/ WorkerStep

SpecTrigger == InitTrigger /\ [][NextTrigger]_vars

(***************************************************************************)
(* One run with the retry limit of the deployment and with a larger one    *)
(***************************************************************************)
\* a stored, enabled task with one page, without branch dimension or with
\* every branch; the process runs with EXPORT_RETRY_COUNT = 3 (the default) or
\* with MaxBackoffRetry
InitBackoff ==
    /\ \E task \in {t \in RunTasks : /\ Len(t.pageIds) = 1
                                     /\ Len(t.branchIds) \in {0, MaxBranches}
                                     /\ t.recipient # {}} :
           taskStore = [t \in Tenants |-> IF t = task.tenantId THEN task ELSE NoTask]
    /\ cronJobs = [n \in JobNames |-> NoJob]
    /\ timers = {}
    /\ calls = EmptyBag
    /\ taskDocs = StoredCount(taskStore)
    /\ ops = 0
    /\ streak = [n \in JobNames |-> 0]
    /\ lastTick = [name |-> "none", started |-> 0, streak |-> 0]
    /\ rejected = {}
    /\ retryLimit \in {EXPORT_RETRY_COUNT, MaxBackoffRetry}
    /\ runs = [r \in {1} |-> IdleRun]
    /\ exportTasks = <<>>
    /\ exportCount = 0
    /\ records = <<>>
    /\ emails = <<>>
    /\ faults = 0
    /\ timeRange = NoRange

SpecBackoff == InitBackoff /\ [][NextRun]_vars

(***************************************************************************)
(* Two runs of the same task at the same time                              *)
(***************************************************************************)
\* a stored, enabled and scheduled task with one page
InitConcurrent ==
    /\ InitTrigger
    /\ \A t \in StoredTenants : taskStore[t].enable

\* the timer starts run 1 and a manual trigger starts run 2, in either order
\* and at any moment of the other run
NextConcurrent ==
    \/ \E n \in JobNames : TimerFires(1, n)
    \/ \E t \in Tenants : TriggerTaskExecution(2, t)
    \/ \E r \in RunIds : RunStep(r)
    \/ WorkerStep

SpecConcurrent == InitConcurrent /\ [][NextConcurrent]_vars

(***************************************************************************)
(* The reporting window: calculateTimeRange.  An instant is a whole number *)
(* of seconds since 2025-01-01T00:00:00Z; a Date is [t, ms].  Years have   *)
(* 365 days (2025 and 2026).                                               *)
(***************************************************************************)
\* first and last day (days since 2025-01-01, UTC) of the instants at which
\* calculateTimeRange is called
FirstDay == 32
LastDay == 364

DEFAULT_TIMEZONE == "Asia/Shanghai"
NoTimezone == "undefined"
TimeZones == {"UTC", "Asia/Shanghai", "America/New_York", "Australia/Sydney"}
Frequencies == {"daily", "weekly", "monthly"}
\* the hour cycle Intl.DateTimeFormat('en-US', {hour12: false}) resolves to:
\* h23 prints midnight as hour 00, h24 prints it as hour 24 of the same date;
\* which one depends on the ICU / ECMA-402 edition of the runtime
HourCycles == {"h23", "h24"}
NowHours == {0, 12, 23}

MonthLength == <<31, 28, 31, 30, 31, 30, 31, 31, 30, 31, 30, 31>>

\* days of the year before the month with 0-based index m0
RECURSIVE DaysBeforeMonth(_)
DaysBeforeMonth(m0) ==
    IF m0 = 0 THEN 0 ELSE MonthLength[m0] + DaysBeforeMonth(m0 - 1)

\* Date.UTC(year, monthIndex, day, hour, minute, second), in seconds; fields
\* out of their range carry over
DateUTC(year, m0, day, hour, minute, second) ==
    ((year + (m0 \div 12) - 2025) * 365 + DaysBeforeMonth(m0 % 12) + day - 1) * 86400
        + hour * 3600 + minute * 60 + second

\* the calendar fields of an instant read as UTC
DatePartsOf(t) ==
    LET days == t \div 86400
        doy == days % 365
        m0 == CHOOSE m \in 0..11 :
                  DaysBeforeMonth(m) <= doy /\ doy < DaysBeforeMonth(m + 1)
        sod == t % 86400
    IN  [year |-> 2025 + days \div 365, month |-> m0 + 1,
         day |-> doy - DaysBeforeMonth(m0) + 1,
         hour |-> sod \div 3600, minute |-> (sod % 3600) \div 60,
         second |-> sod % 60]

\* the UTC offset, in seconds, in force in a time zone at the instant t (tz
\* database, 2025): New York is on EDT from 9 March 07:00Z to 2 November
\* 06:00Z, Sydney is on AEST from 5 April 16:00Z to 4 October 16:00Z
UtcOffset(tz, t) ==
    CASE tz = "UTC" -> 0
      [] tz = "Asia/Shanghai" -> 8 * 3600
      [] tz = "America/New_York" ->
            IF /\ DateUTC(2025, 2, 9, 7, 0, 0) <= t
               /\ t < DateUTC(2025, 10, 2, 6, 0, 0)
            THEN -4 * 3600 ELSE -5 * 3600
      [] tz = "Australia/Sydney" ->
            IF /\ DateUTC(2025, 3, 5, 16, 0, 0) <= t
               /\ t < DateUTC(2025, 9, 4, 16, 0, 0)
            THEN 10 * 3600 ELSE 11 * 3600

\* formatter.formatToParts(date) of Intl.DateTimeFormat('en-US', {timeZone,
\* ..., hour12: false}), parsed field by field
FormatToParts(t, tz, hourCycle) ==
    LET p == DatePartsOf(t + UtcOffset(tz, t))
    IN  [p EXCEPT !.hour = IF hourCycle = "h24" /\ p.hour = 0 THEN 24 ELSE p.hour]

GetCurrentDateTimePartsInTimezone(now, timezone, hourCycle) ==
    FormatToParts(now, timezone, hourCycle)

CreateDateInTimezone(year, month, day, hour, minute, second, timezone, hourCycle) ==
    LET utcDate == DateUTC(year, month - 1, day, hour, minute, second)
        tzParts == FormatToParts(utcDate, timezone, hourCycle)
        targetTzDate == DateUTC(tzParts.year, tzParts.month - 1, tzParts.day,
                                tzParts.hour, tzParts.minute, tzParts.second)
        offset == targetTzDate - utcDate
    IN  [t |-> utcDate - offset, ms |-> 0]

\* new Date(year, monthIndex, day): midnight of the host's local time zone.  Its
\* fields are read back in the same zone, so only the calendar date matters;
\* fields out of their range carry over (day 0 is the last day of the previous
\* month, 31 February is 3 March)
NewDate(year, m0, day) ==
    LET p == DatePartsOf(DateUTC(year, m0, day, 0, 0, 0))
    IN  [fullYear |-> p.year, month |-> p.month - 1, date |-> p.day]

\* date.setDate(n)
SetDate(date, n) == NewDate(date.fullYear, date.month, n)

\* date.setMonth(m0)
SetMonth(date, m0) == NewDate(date.fullYear, m0, date.date)

CalculateTimeRange(frequency, timezone, current, hourCycle) ==
    LET tz == IF timezone = NoTimezone THEN DEFAULT_TIMEZONE ELSE timezone
        now == GetCurrentDateTimePartsInTimezone(current, tz, hourCycle)
        endTime == CreateDateInTimezone(now.year, now.month, now.day,
                                        23, 59, 59, tz, hourCycle)
        today == NewDate(now.year, now.month - 1, now.day)
        from == CASE frequency = "weekly" -> SetDate(today, today.date - 7)
                  [] frequency = "monthly" -> SetMonth(today, today.month - 1)
                  [] OTHER -> SetDate(today, today.date - 1)
        startTime == CreateDateInTimezone(from.fullYear, from.month + 1, from.date,
                                          0, 0, 0, tz, hourCycle)
    IN  [startTime |-> startTime, endTime |-> endTime]

\* one call of calculateTimeRange at the instant timeRange.now
CalculateTimeRangeCall ==
    /\ timeRange.pc = "call"
    /\ timeRange' =
           [timeRange EXCEPT
               !.pc = "returned",
               !.range = CalculateTimeRange(timeRange.frequency, timeRange.timezone,
                                            timeRange.now, timeRange.hourCycle)]
    /\ UNCHANGED <<regVars, runVars>>

InitWindow ==
    /\ taskStore = [t \in Tenants |-> NoTask]
    /\ cronJobs = [n \in JobNames |-> NoJob]
    /\ timers = {}
    /\ calls = EmptyBag
    /\ taskDocs = StoredCount(taskStore)
    /\ ops = 0
    /\ streak = [n \in JobNames |-> 0]
    /\ lastTick = [name |-> "none", started |-> 0, streak |-> 0]
    /\ rejected = {}
    /\ retryLimit = EXPORT_RETRY_COUNT
    /\ runs = <<>>
    /\ exportTasks = <<>>
    /\ exportCount = 0
    /\ records = <<>>
    /\ emails = <<>>
    /\ faults = 0
    /\ \E d \in FirstDay..LastDay, h \in NowHours, f \in Frequencies,
          tz \in TimeZones \cup {NoTimezone}, hc \in HourCycles :
           timeRange = [pc |-> "call", frequency |-> f, timezone |-> tz,
                        now |-> d * 86400 + h * 3600 + 1799, hourCycle |-> hc,
                        range |-> NoRange]

NextWindow == CalculateTimeRangeCall

SpecWindow == InitWindow /\ [][NextWindow]_vars

(***************************************************************************)
(* A failed run whose failure notification is not accepted by the mail     *)
(* transport                                                               *)
(***************************************************************************)
\* the mail transport is down when handleExecutionError sends the failure
\* notification: sendEmail throws, sendFailureNotification logs the error and
\* returns, and handleExecutionError goes on as after a successful send
SendFailureNotificationRejected(r) ==
    /\ runs[r].pc = "fail_notify"
    /\ emails' = Append(emails, FailureMessage(r, runs[r], FALSE))
    /\ Step(r, [runs[r] EXCEPT !.pc = "fail_save", !.rec.emailStatus = "success"],
            exportTasks)
    /\ UNCHANGED <<regVars, retryLimit, exportCount, records, faults, timeVars>>

NextNotify ==
    \/ NextRun
    \/ \E r \in RunIds : SendFailureNotificationRejected(r)

\* one run of a task with at most one page and one branch; the run may fail
\* and the mail transport may reject the notification of that failure
SpecNotify == InitLive /\ [][NextNotify]_vars

(***************************************************************************)
(* Concurrent createExportTask calls and the daily export limit            *)
(***************************************************************************)
\* process.env.MAX_DAILY_EXPORTS || '10'
MAX_DAILY_EXPORTS == 10
\* createExportTask calls in flight at the same time
MaxCreators == 2
\* export documents created in one behaviour
MaxDailyDocs == 12

\* the assetId createExportTask stores: the branchId, or without branchIds
\* createDto.assetId || createDto.reportPage
AssetIdOf(doc) == IF doc.branch # NoBranch THEN doc.branch ELSE doc.page

\* exportTaskModel.countDocuments({tenantId, assetId, createdAt: today})
CountDocuments(tenantId, assetId) ==
    Cardinality({i \in DOMAIN exportTasks :
                    /\ exportTasks[i].tenantId = tenantId
                    /\ AssetIdOf(exportTasks[i]) = assetId})

\* createExportTask(createDto, tenantId) without branchIds is called: the
\* parameters are valid and checkDailyExportLimit sends its query
CreateExportTaskCalled(tenantId, reportPage) ==
    /\ BagCardinality(calls) < MaxCreators
    /\ exportCount + BagCardinality(calls) < MaxDailyDocs
    /\ calls' = Issue(NewCall("createExportTask", tenantId, "check_limit",
                              [reportPage |-> reportPage]))
    /\ UNCHANGED <<taskStore, taskDocs, cronJobs, timers, ops, streak, lastTick, rejected,
                   runVars, timeVars>>

\* checkDailyExportLimit: the count is answered; the call throws when it has
\* reached MAX_DAILY_EXPORTS, otherwise the document is built and save() is sent
CheckDailyExportLimit(c) ==
    /\ c.pc = "check_limit"
    /\ IF CountDocuments(c.tenant, c.dto.reportPage) >= MAX_DAILY_EXPORTS
       THEN /\ calls' = Return(c)
            /\ rejected' = rejected \cup {Rejection(c.op, c.tenant)}
       ELSE /\ calls' = Move(c, [c EXCEPT !.pc = "save"])
            /\ UNCHANGED rejected
    /\ UNCHANGED <<taskStore, taskDocs, cronJobs, timers, ops, streak, lastTick,
                   runVars, timeVars>>

\* task.save(): the pending document is stored, handed to the limiter, and
\* createExportTask returns it
SaveExportTask(c) ==
    /\ c.pc = "save"
    /\ exportCount' = exportCount + 1
    /\ exportTasks' = exportTasks @@
           (exportCount' :> NewExportTask(0, c.tenant, c.dto.reportPage, NoBranch, 0))
    /\ calls' = Return(c)
    /\ UNCHANGED <<taskStore, taskDocs, cronJobs, timers, ops, streak, lastTick, rejected,
                   retryLimit, runs, records, emails, faults, timeVars>>

\* no export document has been created today
InitDaily ==
    /\ taskStore = [t \in Tenants |-> NoTask]
    /\ cronJobs = [n \in JobNames |-> NoJob]
    /\ timers = {}
    /\ calls = EmptyBag
    /\ taskDocs = StoredCount(taskStore)
    /\ ops = 0
    /\ streak = [n \in JobNames |-> 0]
    /\ lastTick = [name |-> "none", started |-> 0, streak |-> 0]
    /\ rejected = {}
    /\ retryLimit = EXPORT_RETRY_COUNT
    /\ runs = <<>>
    /\ exportTasks = <<>>
    /\ exportCount = 0
    /\ records = <<>>
    /\ emails = <<>>
    /\ faults = 0
    /\ timeRange = NoRange

NextDaily ==
    \/ \E t \in Tenants : CreateExportTaskCalled(t, PageId(1))
    \/ \E c \in InFlight : CheckDailyExportLimit(c)
    \/ \E c \in InFlight : SaveExportTask(c)

\* createExportTask calls of two tenants for one asset on one day, up to
\* MaxCreators of them in flight together
SpecDaily == InitDaily /\ [][NextDaily]_vars

(***************************************************************************)
(* The queries of the execution-record store: TaskExecutionRecordService   *)
(* behind TaskExecutionRecordController.  A caller is an authenticated     *)
(* user of one tenant; a result is the sequence of the ids of the records  *)
(* returned.                                                               *)
(***************************************************************************)
\* execution records stored in one behaviour
MaxRecords == 3
\* the values of the limit query parameter
QueryLimits == {1, 100}

\* .sort({ createdAt: -1 }).limit(limit): the newest limit records of ids
RECURSIVE Newest(_, _)
Newest(ids, limit) ==
    IF ids = {} \/ limit = 0 THEN <<>>
    ELSE LET top == CHOOSE i \in ids : \A j \in ids : j <= i
         IN  <<top>> \o Newest(ids \ {top}, limit - 1)

\* find({ taskId, tenantId })
FindByTaskId(taskId, tenantId, limit) ==
    Newest({i \in DOMAIN records :
               records[i].taskId = taskId /\ records[i].tenantId = tenantId}, limit)

\* find({ tenantId })
FindByTenantId(tenantId, limit) ==
    Newest({i \in DOMAIN records : records[i].tenantId = tenantId}, limit)

\* find({})
FindAll(limit) == Newest(DOMAIN records, limit)

\* findOne({ _id: id, tenantId }); null is the empty result
FindById(id, tenantId) ==
    IF id \in DOMAIN records /\ records[id].tenantId = tenantId THEN <<id>> ELSE <<>>

\* the routes of the controller, each with the service call it makes
QueryOps == {"findByTaskId", "findAll", "findAllDebug", "findById"}

\* what the handler of a request returns, given the tenant of its caller
Answer(c) ==
    CASE c.op = "findByTaskId" -> FindByTaskId(c.dto.taskId, c.tenant, c.dto.limit)
      [] c.op = "findAll" -> FindByTenantId(c.tenant, c.dto.limit)
      [] c.op = "findAllDebug" -> FindAll(c.dto.limit)
      [] c.op = "findById" -> FindById(c.dto.id, c.tenant)

\* createExecutionRecord of a run of the tenant's task
RecordCreated(tenantId) ==
    /\ Len(records) < MaxRecords
    /\ records' = Append(records, InitialRecord([id |-> SYSTEM_TASK_ID, tenantId |-> tenantId,
                                                  recipient |-> {"a@x.com"}]))
    /\ UNCHANGED <<regVars, retryLimit, runs, exportTasks, exportCount, emails, faults,
                   timeVars>>

\* a GET request of an authenticated user of tenantId reaches its handler,
\* which calls the service; calls keeps the last request and, once it is
\* answered, its response
QueryRequested(op, tenantId, limit, id) ==
    /\ \A c \in InFlight : c.pc = "responded"
    /\ calls' = SetToBag({NewCall(op, tenantId, "query",
                                  [taskId |-> SYSTEM_TASK_ID, limit |-> limit, id |-> id])})
    /\ UNCHANGED <<taskStore, taskDocs, cronJobs, timers, ops, streak, lastTick, rejected,
                   runVars, timeVars>>

\* the query is answered and the handler returns its response
QueryAnswered(c) ==
    /\ c.pc = "query"
    /\ calls' = Move(c, [c EXCEPT !.pc = "responded", !.loaded = Answer(c)])
    /\ UNCHANGED <<taskStore, taskDocs, cronJobs, timers, ops, streak, lastTick, rejected,
                   runVars, timeVars>>

NextQuery ==
    \/ \E t \in Tenants : RecordCreated(t)
    \/ \E op \in QueryOps, t \in Tenants, limit \in QueryLimits, id \in 1..MaxRecords :
           QueryRequested(op, t, limit, id)
    \/ \E c \in InFlight : QueryAnswered(c)

\* runs of two tenants create records while users of both tenants query them
SpecQuery == InitDaily /\ [][NextQuery]_vars

(***************************************************************************)
(* The reporting window of the sub-tasks of one run: executeTask computes  *)
(* it once, the retry of a failed sub-task computes it again               *)
(***************************************************************************)
\* the days and the seconds of the day (UTC) at which a run starts; 57599 is
\* 23:59:59 in Asia/Shanghai
RunStartDays == {FirstDay, FirstDay + 27, LastDay}
RunStartSeconds == {0, 43200, 57599}

\* executeTask: timezone = task.timezone || DEFAULT_TIMEZONE, then
\* calculateTimeRange(task.frequency, timezone)
ExecuteTaskRange ==
    /\ timeRange.pc = "start"
    /\ timeRange' =
           [timeRange EXCEPT
               !.pc = "create",
               !.range = CalculateTimeRange(
                             timeRange.frequency,
                             IF timeRange.timezone = NoTimezone THEN DEFAULT_TIMEZONE
                             ELSE timeRange.timezone,
                             timeRange.now, timeRange.hourCycle)]
    /\ UNCHANGED <<regVars, runVars>>

\* createExportTasksForPage: createExportTask with the startTime and endTime
\* executeTask passed down
CreateWithRunRange ==
    /\ timeRange.pc = "create"
    /\ timeRange' = [timeRange EXCEPT !.pc = "wait", !.created = <<timeRange.range>>]
    /\ UNCHANGED <<regVars, runVars>>

\* the sub-task is seen failed after some polls of 2 seconds, then the driver
\* sleeps retryDelay
WaitAndSleep(polls) ==
    /\ timeRange.pc = "wait"
    /\ Len(timeRange.created) <= MaxRetry
    /\ timeRange' =
           [timeRange EXCEPT
               !.pc = "retry",
               !.now = @ + 2 * polls
                         + RetryDelayAfterFailure(Len(timeRange.created) - 1) \div 1000]
    /\ UNCHANGED <<regVars, runVars>>

\* the retry: calculateTimeRange(task.frequency) at the time of the retry, then
\* createExportTask with that startTime and endTime
RetryWithNewRange ==
    /\ timeRange.pc = "retry"
    /\ timeRange' =
           [timeRange EXCEPT
               !.pc = "wait",
               !.created = Append(@, CalculateTimeRange(timeRange.frequency, NoTimezone,
                                                        timeRange.now, timeRange.hourCycle))]
    /\ UNCHANGED <<regVars, runVars>>

InitRetryWindow ==
    /\ taskStore = [t \in Tenants |-> NoTask]
    /\ cronJobs = [n \in JobNames |-> NoJob]
    /\ timers = {}
    /\ calls = EmptyBag
    /\ taskDocs = StoredCount(taskStore)
    /\ ops = 0
    /\ streak = [n \in JobNames |-> 0]
    /\ lastTick = [name |-> "none", started |-> 0, streak |-> 0]
    /\ rejected = {}
    /\ retryLimit = EXPORT_RETRY_COUNT
    /\ runs = <<>>
    /\ exportTasks = <<>>
    /\ exportCount = 0
    /\ records = <<>>
    /\ emails = <<>>
    /\ faults = 0
    /\ \E d \in RunStartDays, s \in RunStartSeconds, f \in Frequencies,
          tz \in {NoTimezone, "America/New_York"}, hc \in HourCycles :
           timeRange = [pc |-> "start", frequency |-> f, timezone |-> tz,
                        now |-> d * 86400 + s, hourCycle |-> hc,
                        range |-> NoRange, created |-> <<>>]

NextRetryWindow ==
    \/ ExecuteTaskRange
    \/ CreateWithRunRange
    \/ \E polls \in 0..MaxPolls : WaitAndSleep(polls)
    \/ RetryWithNewRange

SpecRetryWindow == InitRetryWindow /\ [][NextRetryWindow]_vars

(***************************************************************************)
(* createOrUpdate with a timezone in the request body                      *)
(***************************************************************************)
\* the bodies of PUT /scheduled-tasks that enable a task, with and without
\* the optional timezone field
ZoneDtos ==
    { [enable |-> TRUE, frequency |-> f, time |-> [hh |-> 9, mm |-> 0],
       recipient |-> {"a@x.com"}, pageIds |-> <<"p1">>, branchIds |-> <<>>]
      : f \in {"daily", "weekly"} }
    \cup
    { [enable |-> TRUE, frequency |-> f, time |-> [hh |-> 9, mm |-> 0],
       recipient |-> {"a@x.com"}, pageIds |-> <<"p1">>, branchIds |-> <<>>,
       timezone |-> "America/New_York"]
      : f \in {"daily", "weekly"} }

\* task.timezone || this.DEFAULT_TIMEZONE: the zone the CronJob of scheduleTask
\* is created with, and the zone executeTask passes to calculateTimeRange
TimezoneOf(task) ==
    IF "timezone" \in DOMAIN task THEN task.timezone ELSE DEFAULT_TIMEZONE

\* the registry and one run slot, no stored task
InitZone ==
    /\ taskStore = [t \in Tenants |-> NoTask]
    /\ cronJobs = [n \in JobNames |-> NoJob]
    /\ timers = {}
    /\ calls = EmptyBag
    /\ taskDocs = StoredCount(taskStore)
    /\ ops = 0
    /\ streak = [n \in JobNames |-> 0]
    /\ lastTick = [name |-> "none", started |-> 0, streak |-> 0]
    /\ rejected = {}
    /\ retryLimit = EXPORT_RETRY_COUNT
    /\ runs = [r \in {1} |-> IdleRun]
    /\ exportTasks = <<>>
    /\ exportCount = 0
    /\ records = <<>>
    /\ emails = <<>>
    /\ faults = 0
    /\ timeRange = NoRange

NextZone ==
    \/ \E t \in Tenants, dto \in ZoneDtos \cup {DisableDto} : CreateOrUpdate(t, dto)
    \/ CallSteps
    \/ \E r \in RunIds, n \in JobNames : TimerFires(r, n)

\* createOrUpdate calls with and without timezone, and the start of a run by
\* a registered timer
SpecZone == InitZone /\ [][NextZone]_vars

(***************************************************************************)
(* Concurrent enabling createOrUpdate calls                                *)
(***************************************************************************)
NextEnable ==
    \/ \E t \in Tenants, dto \in EnableDtos : CreateOrUpdate(t, dto)
    \/ \E c \in InFlight :
        \/ EnableUpsert(c)
        \/ EnableResume(c)
        \/ ReschedFind(c)
        \/ ReschedResume(c)

\* every interleaving of createOrUpdate(enable = true) calls
SpecEnable == InitRegistry /\ [][NextEnable]_vars

(***************************************************************************)
(* createOrUpdate calls that end with an error                             *)
(***************************************************************************)
\* enableOrUpdateTask: findOneAndUpdate throws; the catch rethrows and
\* createOrUpdate ends with the error before rescheduleTask is called
EnableUpsertThrows(c) ==
    /\ c.pc = "enable_upsert"
    /\ Throws
    /\ calls' = Return(c)
    /\ rejected' = rejected \cup {Rejection("createOrUpdate", c.tenant)}
    /\ UNCHANGED <<taskStore, taskDocs, cronJobs, timers, ops, streak, lastTick, retryLimit,
                   runs, exportTasks, exportCount, records, emails, timeVars>>

\* disableTask: findOneAndUpdate throws; createOrUpdate ends with the error
\* before unscheduleTask is called
DisableUpsertThrows(c) ==
    /\ c.pc = "disable_upsert"
    /\ Throws
    /\ calls' = Return(c)
    /\ rejected' = rejected \cup {Rejection("createOrUpdate", c.tenant)}
    /\ UNCHANGED <<taskStore, taskDocs, cronJobs, timers, ops, streak, lastTick, retryLimit,
                   runs, exportTasks, exportCount, records, emails, timeVars>>

\* rescheduleTask: findOne throws after unscheduleTask has run; the error
\* passes through createOrUpdate to the caller
ReschedFindThrows(c) ==
    /\ c.pc = "resched_find"
    /\ Throws
    /\ calls' = Return(c)
    /\ rejected' = rejected \cup {Rejection(c.op, c.tenant)}
    /\ UNCHANGED <<taskStore, taskDocs, cronJobs, timers, ops, streak, lastTick, retryLimit,
                   runs, exportTasks, exportCount, records, emails, timeVars>>

\* the task of T1 is stored, enabled and scheduled; T2 has no task
InitFail ==
    /\ \E dto \in EnableDtos :
        LET store == EnableOrUpdateTask([t \in Tenants |-> NoTask], dto, "T1")
            R     == ScheduleTask([cronJobs |-> [n \in JobNames |-> NoJob], timers |-> {}],
                                  store["T1"])
        IN  taskStore = store /\ cronJobs = R.cronJobs /\ timers = R.timers
    /\ calls = EmptyBag
    /\ taskDocs = StoredCount(taskStore)
    /\ ops = 0
    /\ streak = [n \in JobNames |-> 0]
    /\ lastTick = [name |-> "none", started |-> 0, streak |-> 0]
    /\ rejected = {}
    /\ retryLimit = EXPORT_RETRY_COUNT
    /\ runs = <<>>
    /\ exportTasks = <<>>
    /\ exportCount = 0
    /\ records = <<>>
    /\ emails = <<>>
    /\ faults = 0
    /\ timeRange = NoRange

\* a createOrUpdate call is made when no other call is in flight
CreateOrUpdateAlone(tenantId, dto) == AllCallsCompleted /\ CreateOrUpdate(tenantId, dto)

NextFail ==
    \/ \E t \in Tenants, dto \in Dtos : CreateOrUpdateAlone(t, dto)
    \/ CallSteps
    \/ \E c \in InFlight :
        \/ EnableUpsertThrows(c)
        \/ DisableUpsertThrows(c)
        \/ ReschedFindThrows(c)

\* createOrUpdate calls one after the other, each of which may fail at the
\* validation or at one of its database calls
SpecFail == InitFail /\ [][NextFail]_vars

(***************************************************************************)
(* Claims about the cron registry                                          *)
(***************************************************************************)
\* C1: after any interleaving of scheduleTask, unscheduleTask, rescheduleTask,
\* loadAllEnabledTasks and createOrUpdate, at most one started timer exists per
\* (taskId, tenantId) key and it is the registered one; after one or more
\* scheduleTask calls in a row for a key exactly one timer is active, and a cron
\* tick of a key starts exactly one run.
OneTimerPerKey ==
    /\ \A n \in JobNames : Cardinality(TimersOf(n)) <= 1
    /\ \A j \in timers : cronJobs[j.name] = j.id
    /\ \A n \in JobNames : streak[n] >= 1 => Cardinality(TimersOf(n)) = 1
    /\ lastTick.name # "none" => lastTick.started = 1

\* C1 witness: a key was scheduled twice in a row and then ticked
ScheduledTwiceThenTicked ==
    /\ lastTick.name # "none"
    /\ lastTick.streak = 2
    /\ lastTick.started = 1

\* C10 (as claimed): once all createOrUpdate calls have completed, a timer is
\* registered for a key only if the stored task has enable = true.
TimerOnlyIfEnabled ==
    AllCallsCompleted =>
        \A t \in Tenants :
            DoesExist(Registry, JobName(SYSTEM_TASK_ID, t)) =>
                (taskStore[t] # NoTask /\ taskStore[t].enable)

(***************************************************************************)
(* Claims about one run                                                    *)
(***************************************************************************)
Started == {r \in RunIds : runs[r].pc # "idle"}
Done == {r \in RunIds : runs[r].pc = "done"}
NonTerminalOf(r) ==
    {i \in DOMAIN exportTasks : exportTasks[i].run = r
                                /\ exportTasks[i].status \in {"pending", "processing"}}
FailureMails == {i \in DOMAIN emails : emails[i].kind = "failure"}

OneSubTaskInFlight ==
    \A r \in RunIds : Cardinality(NonTerminalOf(r)) <= 1

FailedRunLeavesRecord ==
    \A r \in Done :
        runs[r].error =>
            /\ runs[r].recId # 0
            /\ records[runs[r].recId].status = "failed"
            /\ records[runs[r].recId].errorMessage
            /\ records[runs[r].recId].errorStack
            /\ records[runs[r].recId].endTime
            /\ runs[r].task.recipient # {} => FailureMails # {}

\* what C6 asserts of a finished run over P pages and B branches
CountsAndAttachmentsOf(r) ==
    LET run == runs[r]
        k   == Cardinality(run.okPairs)
    IN  /\ records[run.recId].totalExports
               = Len(run.task.pageIds) * Len(run.task.branchIds)
        /\ records[run.recId].successfulExports = k
        /\ (k > 0 /\ run.task.recipient # {}) =>
              /\ Len(emails) = 1
              /\ emails[1].kind = "report"
              /\ Len(emails[1].attachments) = k
              /\ {emails[1].attachments[i].filename : i \in 1..k}
                     = {GenerateReportFileName(pr[1], pr[2]) : pr \in run.okPairs}

NoRecipientNoMail ==
    \A r \in Started :
        runs[r].task.recipient = {} =>
            /\ emails = <<>>
            /\ runs[r].rec # NoRec => runs[r].rec.emailStatus = "not_sent"
            /\ runs[r].recId # 0 => records[runs[r].recId].emailStatus = "not_sent"

\* C7 witness: a run without recipients had a successful export and ended failed
NoRecipientRunFailed ==
    \E r \in Done :
        /\ runs[r].task.recipient = {}
        /\ Len(runs[r].successes) > 0
        /\ runs[r].recId # 0
        /\ records[runs[r].recId].status = "failed"

\* C8 (as claimed): every finished run has produced exactly one execution
\* record, never zero and never more than one.
ExactlyOneRecord ==
    \A r \in Done : Len(records) = 1

\* C9: the sub-task driver never lets an exception escape: whatever the export
\* collaborator does, it returns a successful export or null, and null when a
\* re-creation threw.
DriverNeverThrows ==
    \A r \in Started :
        /\ runs[r].pc # "escaped"
        /\ runs[r].last.result \in {"none", "success", "null"}
        /\ runs[r].last.threw => runs[r].last.result = "null"

\* C9 witness: a re-creation threw and the driver returned null
RecreateThrewThenNull ==
    \E r \in Started :
        /\ runs[r].last.threw
        /\ runs[r].last.result = "null"

(***************************************************************************)
(* Claims about runs and the registry together                             *)
(***************************************************************************)
KeyOf(run) == JobName(run.task.id, run.task.tenantId)
InFlightRuns == {r \in RunIds : runs[r].pc \notin {"idle", "done"}}

\* C11: a step that removes the timer of a key leaves every run in flight as it
\* is, a run in flight can always take its next step whatever the registry
\* holds, a finished run without run-level exception has processed all its
\* pages and set endTime in its record, and a run is started by the timer only
\* while the key is registered.
RunOutlivesTimer ==
    /\ [][\A r \in InFlightRuns :
            (DoesExist(Registry, KeyOf(runs[r])) /\ cronJobs'[KeyOf(runs[r])] = NoJob)
                => runs'[r] = runs[r]]_vars
    /\ [](\A r \in InFlightRuns : ENABLED RunStep(r))
    /\ [](\A r \in Done :
            ~runs[r].error =>
                /\ runs[r].pageIdx = Len(runs[r].task.pageIds)
                /\ runs[r].rec.endTime)
    /\ [][\A r \in RunIds :
            (runs[r].pc = "idle" /\ runs'[r].pc # "idle")
                => DoesExist(Registry, KeyOf(runs'[r]))]_vars

\* C11 witness: a run started by the timer is waiting for the export of its
\* first page, with a page still to come, and the timer of its key is gone
UnscheduledInFlight ==
    \E r \in InFlightRuns :
        /\ runs[r].caller = "timer"
        /\ runs[r].pc = "wait"
        /\ runs[r].pageIdx < Len(runs[r].task.pageIds)
        /\ ~DoesExist(Registry, KeyOf(runs[r]))
        /\ TimersOf(KeyOf(runs[r])) = {}

\* every started run ends, whether or not its sub-tasks reach a terminal status
EveryRunFinishes ==
    \A r \in {1} : (runs[r].pc # "idle") ~> (runs[r].pc = "done")

\* C12 (as claimed): every started run eventually finishes with its execution
\* record finalized (endTime set), even if a sub-task never becomes terminal.
EveryRunFinalizes ==
    \A r \in {1} :
        (runs[r].pc # "idle")
            ~> (runs[r].pc = "done" /\ runs[r].rec # NoRec /\ runs[r].rec.endTime)

(***************************************************************************)
(* Claims about the reporting window                                       *)
(***************************************************************************)
\* the UTC instant whose wall-clock reading in the time zone tz is wall
WallClockInstant(tz, wall) ==
    CHOOSE t \in {wall - h * 3600 : h \in -12..14} : t + UtcOffset(tz, t) = wall

\* the window the caller of calculateTimeRange is promised for the call in
\* timeRange
PromisedRange ==
    LET tz == IF timeRange.timezone = NoTimezone THEN DEFAULT_TIMEZONE
              ELSE timeRange.timezone
        D == DatePartsOf(timeRange.now + UtcOffset(tz, timeRange.now))
        first ==
            CASE timeRange.frequency = "daily" ->
                     DateUTC(D.year, D.month - 1, D.day - 1, 0, 0, 0)
              [] timeRange.frequency = "weekly" ->
                     DateUTC(D.year, D.month - 1, D.day - 7, 0, 0, 0)
              [] timeRange.frequency = "monthly" ->
                     LET length == MonthLength[((D.month - 2) % 12) + 1]
                     IN  DateUTC(D.year, D.month - 2,
                                 IF D.day <= length THEN D.day ELSE length, 0, 0, 0)
    IN  [startTime |-> [t |-> WallClockInstant(tz, first), ms |-> 0],
         endTime |-> [t |-> WallClockInstant(tz, DateUTC(D.year, D.month - 1, D.day,
                                                         23, 59, 59)),
                      ms |-> 999]]

\* C13: for every time zone, frequency and current instant, whose calendar date
\* in the time zone is D, calculateTimeRange returns end = 23:59:59.999 of D and
\* start = 00:00:00.000 of the day one day, seven days or one calendar month
\* before D, each as the UTC instant that has that wall-clock time in the time
\* zone, with the offset in force at that date.
TimeRangeAsClaimed ==
    timeRange.pc = "returned" => timeRange.range = PromisedRange

(***************************************************************************)
(* Claims about the task store                                             *)
(***************************************************************************)
\* C14: a step that leaves an existing task stored as disabled changes nothing
\* of it but the enable flag: frequency, time, recipient, pageIds, branchIds and
\* cronExpression are what they were, however many disables follow each other.
DisableChangesOnlyEnable ==
    [][\A t \in Tenants :
          (taskStore[t] # NoTask /\ ~taskStore'[t].enable)
              => taskStore'[t] = [taskStore[t] EXCEPT !.enable = FALSE]]_vars

\* two createOrUpdate(enable = false) have both been applied to a task that
\* had been enabled with its own pages
DisabledTwiceAfterEnable ==
    \E c \in InFlight :
        /\ c.pc = "disable_resume"
        /\ CopiesIn(c, calls) = 2
        /\ ~taskStore[c.tenant].enable
        /\ taskStore[c.tenant].pageIds # <<>>

\* C15: in every reachable state of the task store, whatever enable, update and
\* disable calls have been applied and however they interleave, the stored
\* cronExpression of a task is the expression generated from the frequency and
\* time stored in the same document.
CronMatchesFrequencyAndTime ==
    \A t \in Tenants :
        taskStore[t] # NoTask
            => taskStore[t].cronExpression
                   = CronGenerate(taskStore[t].frequency, taskStore[t].time)

\* a task that was updated to the weekly frequency and then disabled, next to a
\* placeholder inserted by a disable
UpdatedThenDisabled ==
    /\ AllCallsCompleted
    /\ \E t \in Tenants :
           /\ taskStore[t] # NoTask
           /\ taskStore[t].frequency = "weekly"
           /\ ~taskStore[t].enable
    /\ \E t \in Tenants :
           /\ taskStore[t] # NoTask
           /\ taskStore[t].pageIds = <<>>

\* C16: a createOrUpdate(enable = true) whose body fails the validation of the
\* required fields returns the error to its caller and changes neither the
\* stored task nor the registry: a timer registered for the key before the call
\* is still registered, with the same cron expression.
FailedValidationHasNoEffect ==
    [][rejected' # rejected
          => /\ taskStore' = taskStore
             /\ cronJobs' = cronJobs
             /\ timers' = timers
             /\ calls' = calls]_vars

\* a call was rejected while a timer was registered for its key, and that
\* timer is the one registered now
RejectedWithTimerRegistered ==
    \E e \in rejected :
        /\ e.op = "createOrUpdate"
        /\ e.job # NoJob
        /\ cronJobs[JobName(SYSTEM_TASK_ID, e.tenant)] = e.job
        /\ \E job \in TimersOf(JobName(SYSTEM_TASK_ID, e.tenant)) :
               /\ job.id = e.job
               /\ job.task.cronExpression = taskStore[e.tenant].cronExpression

(***************************************************************************)
(* Claims about the manual trigger                                         *)
(***************************************************************************)
\* C17: triggerTaskExecution returns an error and starts no run when no task is
\* stored for the tenant or the stored task is disabled, and only then;
\* otherwise it can start a run, it starts exactly one, with the task as it is
\* stored, returns without an error whatever the run does afterwards, and
\* leaves the timer registry as it is.
TriggerStartsOneRunOrFails ==
    /\ [][rejected' # rejected
             => /\ runs' = runs
                /\ records' = records
                /\ cronJobs' = cronJobs
                /\ timers' = timers]_vars
    /\ [](\A e \in rejected :
             IF taskStore[e.tenant] = NoTask THEN TRUE ELSE ~taskStore[e.tenant].enable)
    /\ [](\A t \in StoredTenants, r \in RunIds :
             (taskStore[t].enable /\ runs[r].pc = "idle")
                 => ENABLED TriggerTaskExecution(r, t))
    /\ [][\A r \in RunIds :
             (runs[r].pc = "idle" /\ runs'[r].pc # "idle")
                 => /\ \E t \in StoredTenants :
                           taskStore[t].enable /\ runs'[r].task = taskStore[t]
                    /\ \A q \in RunIds \ {r} : runs'[q] = runs[q]
                    /\ rejected' = rejected
                    /\ cronJobs' = cronJobs
                    /\ timers' = timers]_vars
    /\ [][(\E r \in InFlightRuns : runs'[r] # runs[r]) => rejected' = rejected]_vars

\* a triggered run has failed and no error was returned for its tenant, while
\* the trigger for the tenant without a task was refused; the timer of the
\* run's key is still registered
TriggeredRunFailedCallerUnaware ==
    /\ \E r \in Done :
           /\ runs[r].caller = "trigger"
           /\ runs[r].error
           /\ DoesExist(Registry, KeyOf(runs[r]))
           /\ \A e \in rejected : e.tenant # runs[r].task.tenantId
    /\ \E e \in rejected :
           e.op = "triggerTaskExecution" /\ taskStore[e.tenant] = NoTask

(***************************************************************************)
(* Claims about startup and shutdown                                       *)
(***************************************************************************)
\* C18: when the startup load has completed, every stored task with enable =
\* true has a registered timer and no task with enable = false has one, also
\* when scheduling one of the enabled tasks failed; after shutdown no timer is
\* registered or started.
StartupRestoresEveryTask ==
    /\ (AllCallsCompleted /\ ops = 0)
           => \A t \in StoredTenants :
                  taskStore[t].enable <=> DoesExist(Registry, JobName(SYSTEM_TASK_ID, t))
    /\ ops > 0 => (timers = {} /\ \A n \in JobNames : cronJobs[n] = NoJob)

(***************************************************************************)
(* Claims about the notification and the pairs of a run                    *)
(***************************************************************************)
\* the runs whose report message the transport refused
ReportFailed ==
    {r \in Done : \E i \in DOMAIN emails :
                      /\ emails[i].kind = "report"
                      /\ emails[i].run = r
                      /\ ~emails[i].ok}

\* C19: when the report notification of a run fails, the run's execution record
\* ends with emailStatus = failed and emailErrorMessage set while its status is
\* success, the run does not fail, totalExports and successfulExports are what
\* the export phase made them, and this is the record that is persisted by the
\* final save.
NotificationFailureRecorded ==
    \A r \in ReportFailed :
        LET run == runs[r]
            rec == run.rec
            B   == IF Len(run.task.branchIds) = 0 THEN 1 ELSE Len(run.task.branchIds)
        IN  /\ rec.emailStatus = "failed"
            /\ rec.emailErrorMessage
            /\ rec.status = "success"
            /\ rec.endTime
            /\ ~rec.errorMessage
            /\ ~run.error
            /\ run.outcome = "resolved"
            /\ rec.successfulExports = Len(run.successes)
            /\ ~run.createFailed => rec.totalExports = Len(run.task.pageIds) * B
            /\ records[run.recId].totalExports = rec.totalExports
            /\ records[run.recId].successfulExports = rec.successfulExports
            /\ records[run.recId].endTime => records[run.recId] = rec

\* the report of a run with a successful export was refused by the transport
\* and the record was persisted with emailStatus = failed and status = success
ReportRefusedRunSucceeded ==
    \E r \in ReportFailed :
        /\ Len(runs[r].successes) > 0
        /\ records[runs[r].recId].emailStatus = "failed"
        /\ records[runs[r].recId].emailErrorMessage
        /\ records[runs[r].recId].status = "success"

\* the step of run r in which the driver returns null for the current pair
NullReturned(r) ==
    /\ runs[r].pc \in {"wait", "retry_create"}
    /\ runs'[r].brIdx # runs[r].brIdx \/ runs'[r].pc \notin {"wait", "retry_create"}
    /\ runs'[r].successes = runs[r].successes

\* C20: a pair whose driver result is null does not abort the run: the run goes
\* on with the next branch of the page, else with the next page, else with the
\* saving of the counts; a run fails only in a step in which a collaborator
\* throws; and a run that finishes without such an exception has gone through
\* all its pages and has status success, also when no pair succeeded.
NullPairDoesNotAbort ==
    /\ [][\A r \in RunIds :
             NullReturned(r)
                 => /\ ~runs'[r].error
                    /\ runs'[r].last.result = "null"
                    /\ IF runs[r].brIdx < Len(runs[r].created)
                       THEN /\ runs'[r].pc = "wait"
                            /\ runs'[r].pageIdx = runs[r].pageIdx
                            /\ runs'[r].brIdx = runs[r].brIdx + 1
                            /\ runs'[r].cur = runs[r].created[runs[r].brIdx + 1]
                       ELSE IF runs[r].pageIdx < Len(runs[r].task.pageIds)
                       THEN /\ runs'[r].pc = "create_tasks"
                            /\ runs'[r].pageIdx = runs[r].pageIdx + 1
                       ELSE runs'[r].pc = "save_successful"]_vars
    /\ [][\A r \in InFlightRuns :
             (runs'[r].error /\ ~runs[r].error) => faults' = faults + 1]_vars
    /\ [](\A r \in Done :
             ~runs[r].error
                 => /\ runs[r].pageIdx = Len(runs[r].task.pageIds)
                    /\ runs[r].rec.status = "success"
                    /\ runs[r].rec.successfulExports = Len(runs[r].successes)
                    /\ ~runs[r].createFailed
                           => runs[r].rec.totalExports
                                  = Len(runs[r].task.pageIds)
                                      * (IF Len(runs[r].task.branchIds) = 0 THEN 1
                                         ELSE Len(runs[r].task.branchIds)))

\* every pair of a run over 2 pages and 2 branches ended null and the run
\* finished as success
EveryPairNullRunSucceeded ==
    \E r \in Done :
        /\ Len(runs[r].task.pageIds) = 2
        /\ Len(runs[r].task.branchIds) = 2
        /\ ~runs[r].createFailed
        /\ runs[r].successes = <<>>
        /\ ~runs[r].error
        /\ records[runs[r].recId].totalExports = 4
        /\ records[runs[r].recId].successfulExports = 0
        /\ records[runs[r].recId].status = "success"
        /\ records[runs[r].recId].endTime

(***************************************************************************)
(* Claims about the tenants of the task store                              *)
(***************************************************************************)
\* C21: after any sequence and interleaving of createOrUpdate calls from
\* several tenants the collection holds at most one task document per (taskId,
\* tenantId), and the stored task, the registry entry and the started timers of
\* a tenant change only in a step of a createOrUpdate call made for that tenant.
OneTaskPerKeyPerTenant ==
    /\ [](\A t \in Tenants :
            /\ taskDocs[t] <= 1
            /\ taskDocs[t] = 1 <=> taskStore[t] # NoTask)
    /\ [][\A b \in Tenants :
            (\/ taskStore'[b] # taskStore[b]
             \/ taskDocs'[b] # taskDocs[b]
             \/ cronJobs'[JobName(SYSTEM_TASK_ID, b)] # cronJobs[JobName(SYSTEM_TASK_ID, b)]
             \/ {j \in timers' : j.name = JobName(SYSTEM_TASK_ID, b)}
                    # TimersOf(JobName(SYSTEM_TASK_ID, b)))
                => \E c \in InFlight :
                       /\ c.op = "createOrUpdate"
                       /\ c.tenant = b
                       /\ CopiesIn(c, calls') < CopiesIn(c, calls)]_vars

\* a call of each tenant is in flight after its upsert was applied, one enabling
\* and one disabling, while the timer an earlier call registered for the first
\* tenant is still started
TenantsInterleaved ==
    \E c1, c2 \in InFlight :
        /\ c1.tenant # c2.tenant
        /\ c1.pc = "disable_resume"
        /\ c2.pc = "enable_resume"
        /\ taskDocs[c1.tenant] = 1
        /\ taskDocs[c2.tenant] = 1
        /\ TimersOf(JobName(SYSTEM_TASK_ID, c1.tenant)) # {}
        /\ taskStore[c2.tenant].enable
        /\ ~taskStore[c1.tenant].enable

(***************************************************************************)
(* Claims about concurrent runs of one task                                *)
(***************************************************************************)
\* the messages handed to the transport by run r
MailsOf(r) == {i \in DOMAIN emails : emails[i].run = r}

\* C22: two runs of the same task can be in flight together, either can always
\* take its next step, and they are independent: each run appends its own
\* execution record, a record is written only by the run that created it and
\* with that run's document, and in that document totalExports counts only the
\* sub-tasks the run created for its pages, successfulExports and
\* emailAttachments come from the sub-tasks the run itself created, and
\* emailStatus differs from not_sent exactly when the run itself handed a
\* message to the transport.
ConcurrentRunsIndependent ==
    /\ [](\A r \in InFlightRuns : ENABLED RunStep(r))
    /\ [](\A r, q \in Started :
            (r # q /\ runs[r].recId # 0) => runs[r].recId # runs[q].recId)
    /\ [][\A id \in DOMAIN records' :
            (id \notin DOMAIN records \/ records'[id] # records[id])
                => \E r \in Started :
                       /\ runs'[r].recId = id
                       /\ runs'[r] # runs[r]
                       /\ \A q \in RunIds \ {r} : runs'[q] = runs[q]
                       /\ records'[id] = IF id \in DOMAIN records THEN runs[r].rec
                                         ELSE InitialRecord(runs[r].task)]_vars
    /\ [](\A r \in Started :
            runs[r].rec # NoRec =>
                LET run == runs[r]
                    att == Attachments(run.successes)
                IN  /\ run.rec.totalExports <= run.pageIdx * WantedFor(run.task)
                    /\ run.rec.successfulExports \in {0, Len(run.successes)}
                    /\ \A i \in 1..Len(run.successes) : run.successes[i].task.run = r
                    /\ run.rec.emailAttachments \in
                           {<<>>, [i \in 1..Len(att) |->
                                      [filename |-> att[i].filename, path |-> att[i].path]]}
                    /\ run.rec.emailStatus = "not_sent" <=> MailsOf(r) = {})

\* the timer's run and the triggered run were in flight together (the sub-tasks
\* were created in the order run 1, run 2, run 1 again) and both ended with
\* their own record: each holds one export and the attachment of its own file
BothRunsReported ==
    /\ Done = {1, 2}
    /\ runs[1].caller = "timer"
    /\ runs[2].caller = "trigger"
    /\ runs[1].recId # runs[2].recId
    /\ \A r \in Done : runs[r].recId # 0
    /\ \A r \in Done :
           /\ records[runs[r].recId].totalExports = 1
           /\ records[runs[r].recId].successfulExports = 1
           /\ records[runs[r].recId].emailStatus = "success"
           /\ records[runs[r].recId].endTime
           /\ Len(records[runs[r].recId].emailAttachments) = 1
    /\ records[runs[1].recId].emailAttachments[1].path = <<"reports", 3>>
    /\ records[runs[2].recId].emailAttachments[1].path = <<"reports", 2>>

(***************************************************************************)
(* Claims about the finalization of execution records                      *)
(***************************************************************************)
\* C23: an execution record that has been persisted with endTime set, as
\* success or as failed, is never written again: no later step of any run
\* changes it, so it is never finalized a second time with the other status.
FinalizedAtMostOnce ==
    [][\A id \in DOMAIN records :
          records[id].endTime
              => /\ id \in DOMAIN records'
                 /\ records'[id] = records[id]]_vars

\* one run was finalized as failed and the other as success, each in the
\* store, and both executeTask invocations have ended
OneFailedOneSucceeded ==
    /\ Done = {1, 2}
    /\ \A r \in Done : runs[r].recId # 0
    /\ records[runs[1].recId].endTime
    /\ records[runs[1].recId].status = "failed"
    /\ records[runs[2].recId].endTime
    /\ records[runs[2].recId].status = "success"

(***************************************************************************)
(* Claims about the sub-task driver                                        *)
(***************************************************************************)
\* the delay stated for the retry that follows failed attempt number a
ClaimedDelay(a) == IF 1000 * 2^a < 10000 THEN 1000 * 2^a ELSE 10000

\* C24: the delays the driver has slept for the current pair are, in order,
\* min(1000 * 2^a, 10000) ms for a = 0, 1, 2, ..., one per retry, whether the
\* attempt ended failed or the wait threw; they never decrease and never exceed
\* 10000 ms; and with R = 3 a pair whose four attempts all failed has slept
\* 1000, 2000 and 4000 ms when the driver returns null.
BackoffDelays ==
    \A r \in Started :
        /\ \A d \in {runs[r].att.delays, runs[r].last.delays} :
               /\ \A i \in 1..Len(d) : d[i] = ClaimedDelay(i - 1) /\ d[i] <= 10000
               /\ \A i \in 1..(Len(d) - 1) : d[i] <= d[i + 1]
        /\ runs[r].pc = "wait" => Len(runs[r].att.delays) = runs[r].retryCount
        /\ runs[r].pc = "retry_create" => Len(runs[r].att.delays) = runs[r].retryCount + 1
        /\ (retryLimit = 3 /\ runs[r].last.result = "null" /\ ~runs[r].last.threw)
               => runs[r].last.delays = <<1000, 2000, 4000>>
        /\ (runs[r].last.result = "null" /\ ~runs[r].last.threw)
               => Len(runs[r].last.delays) = retryLimit

\* with R >= 5 every attempt of the pair failed, some by a wait that threw, and
\* the driver returned null after sleeping up to the cap
SleptUpToTheCap ==
    \E r \in Started :
        /\ retryLimit >= 5
        /\ faults = 1
        /\ runs[r].last.result = "null"
        /\ ~runs[r].last.threw
        /\ SubSeq(runs[r].last.delays, 1, 5) = <<1000, 2000, 4000, 8000, 10000>>

\* the step of run r counts the attempt as failed: no export is returned for
\* it, and the driver retries while retries remain, else returns null
AttemptCountedFailed(r) ==
    /\ runs'[r].successes = runs[r].successes
    /\ IF runs[r].retryCount < retryLimit
       THEN /\ runs'[r].pc = "retry_create"
            /\ runs'[r].retryCount = runs[r].retryCount
       ELSE /\ runs'[r].last.result = "null"
            /\ runs'[r].last.creates = runs[r].att.creates

\* C25: a wait returns a sub-task only when the sub-task it read is completed
\* or failed; while the sub-task is pending or processing the wait polls again
\* until the maximum wait has elapsed and then ends with an error; a poll that
\* throws ends the wait with an error; and the driver counts a wait that ended
\* with an error as a failed attempt, which it retries while retries remain.
WaitEndsTerminalOrError ==
    /\ [][\A r \in RunIds :
            (runs[r].pc = "wait" /\ runs'[r] # runs[r]) =>
                LET doc == exportTasks[runs[r].cur] IN
                IF faults' # faults
                THEN AttemptCountedFailed(r)
                ELSE IF doc.status \in {"completed", "failed"}
                THEN \/ AttemptCountedFailed(r)
                     \/ /\ doc.status = "completed"
                        /\ Len(runs'[r].successes) = Len(runs[r].successes) + 1
                        /\ runs'[r].successes[Len(runs'[r].successes)].task = doc
                ELSE IF runs[r].polls + 1 < MaxPolls
                THEN runs'[r] = [runs[r] EXCEPT !.polls = @ + 1]
                ELSE AttemptCountedFailed(r)]_vars
    /\ [](\A r \in Started : \A i \in 1..Len(runs[r].successes) :
            runs[r].successes[i].task.status \in {"completed", "failed"})

\* a wait ran out of time on a sub-task that was still processing, the driver
\* created the sub-task again and the second wait returned it completed
TimedOutThenReturned ==
    \E r \in Started :
        /\ runs[r].last.result = "success"
        /\ runs[r].last.creates = 2
        /\ faults = 0
        /\ runs[r].last.delays = <<1000>>
        /\ \E i \in DOMAIN exportTasks :
               /\ exportTasks[i].run = r
               /\ exportTasks[i].attempt = 0
               /\ exportTasks[i].status = "processing"

\* C26: the driver returns an export for a (page, branch) pair exactly in the
\* step in which the wait of one of its attempts, of which there are at most
\* R + 1, returns a sub-task that is completed and has a filePath; the export
\* is that sub-task, which was created by the run for this page and branch, with
\* the pageId and branchId of the pair; a sub-task that is completed without
\* filePath is counted as a failed attempt and retried while retries remain.
NonNullIffCompletedWithFile ==
    /\ [][\A r \in RunIds :
            IF runs[r].pc = "wait" /\ runs'[r] # runs[r] /\ faults' = faults
               /\ exportTasks[runs[r].cur].status = "completed"
               /\ exportTasks[runs[r].cur].filePath # NoPath
            THEN /\ runs'[r].successes =
                        Append(runs[r].successes,
                               [task |-> exportTasks[runs[r].cur],
                                pageId |-> runs[r].task.pageIds[runs[r].pageIdx],
                                branchId |-> BranchOf(runs[r].task, runs[r].brIdx)])
                 /\ runs'[r].last.result = "success"
                 /\ runs'[r].last.creates = runs[r].att.creates
            ELSE /\ runs[r].pc # "idle" => runs'[r].successes = runs[r].successes
                 /\ (runs[r].pc = "wait" /\ runs'[r] # runs[r] /\ faults' = faults
                     /\ exportTasks[runs[r].cur].status = "completed")
                        => AttemptCountedFailed(r)]_vars
    /\ [](\A r \in Started :
            /\ runs[r].att.creates <= retryLimit + 1
            /\ runs[r].last.result = "success" => runs[r].last.creates <= retryLimit + 1
            /\ \A i \in 1..Len(runs[r].successes) :
                   LET e == runs[r].successes[i] IN
                   /\ e.task.status = "completed"
                   /\ e.task.filePath # NoPath
                   /\ e.task.run = r
                   /\ e.task.page = e.pageId
                   /\ e.task.branch = e.branchId)

\* the first pair of a page with two branches returned its export, and for
\* the second pair the first poll read a sub-task completed without filePath:
\* the driver has slept and is about to create the sub-task again
RetryingAfterNoFile ==
    \E r \in Started :
        /\ Len(runs[r].task.branchIds) = 2
        /\ runs[r].pc = "retry_create"
        /\ runs[r].brIdx = 2
        /\ runs[r].retryCount = 0
        /\ runs[r].polls = 0
        /\ ~runs[r].att.allFailed
        /\ faults = 0
        /\ runs[r].att.delays = <<1000>>
        /\ Len(runs[r].successes) = 1
        /\ runs[r].successes[1].branchId = BranchId(1)

(***************************************************************************)
(* Claims about the report message                                         *)
(***************************************************************************)
\* the report messages run r handed to the transport
ReportMailsOf(r) == {i \in DOMAIN emails : emails[i].kind = "report" /\ emails[i].run = r}

NotificationsOf(r) == {i \in DOMAIN emails : emails[i].run = r}

\* the runs of a task whose pageIds list is empty
EmptyRuns == {r \in Started : Len(runs[r].task.pageIds) = 0}

BranchlessRuns == {r \in Started : Len(runs[r].task.branchIds) = 0}

\* C29: when branchIds is empty, every createExportTask call of a run, the
\* first one for a page and every retry, creates exactly one sub-task, for the
\* current page and without branch; the first call for a page returns after
\* that one sub-task and raises totalExports by one, a retry is followed by the
\* wait for the sub-task it created; every successful export of the run has
\* branchId undefined; totalExports never exceeds the number of pages begun,
\* and a run over P pages that has ended with every creation succeeded has
\* totalExports = P.
OneSubTaskPerPageWithoutBranch ==
    /\ [][\A r \in BranchlessRuns :
            (exportCount' # exportCount /\ runs'[r] # runs[r]) =>
                /\ exportCount' = exportCount + 1
                /\ exportTasks'[exportCount'].run = r
                /\ exportTasks'[exportCount'].branch = NoBranch
                /\ exportTasks'[exportCount'].page = runs[r].task.pageIds[runs[r].pageIdx]
                /\ runs[r].pc \in {"create_tasks", "retry_create"}
                /\ runs[r].pc = "create_tasks" =>
                       /\ runs[r].created = <<>>
                       /\ runs'[r].pc = "save_total"
                       /\ runs'[r].created = <<exportCount'>>
                       /\ runs'[r].rec.totalExports = runs[r].rec.totalExports + 1
                       /\ exportTasks'[exportCount'].attempt = 0
                /\ runs[r].pc = "retry_create" =>
                       /\ runs'[r].pc = "wait"
                       /\ runs'[r].cur = exportCount'
                       /\ runs'[r].rec.totalExports = runs[r].rec.totalExports
                       /\ exportTasks'[exportCount'].attempt = runs[r].retryCount + 1]_vars
    /\ [](\A r \in BranchlessRuns :
            /\ \A i \in 1..Len(runs[r].successes) : runs[r].successes[i].branchId = NoBranch
            /\ runs[r].recId # 0 => runs[r].rec.totalExports <= runs[r].pageIdx
            /\ (runs[r].pc = "done" /\ ~runs[r].createFailed /\ runs[r].recId # 0) =>
                   /\ runs[r].rec.totalExports = Len(runs[r].task.pageIds)
                   /\ faults = 0 =>
                          records[runs[r].recId].totalExports = Len(runs[r].task.pageIds))

\* a run over two pages without branches has ended after a retry for the
\* second page: three sub-tasks were created and totalExports is 2
TwoPagesTwoExports ==
    \E r \in BranchlessRuns :
        /\ runs[r].pc = "done"
        /\ Len(runs[r].task.pageIds) = 2
        /\ ~runs[r].createFailed
        /\ faults = 0
        /\ exportCount = 3
        /\ Len(runs[r].successes) = 2
        /\ runs[r].successes[2].task.attempt = 1
        /\ runs[r].successes[2].task.branch = NoBranch
        /\ runs[r].successes[2].pageId = PageId(2)
        /\ runs[r].recId # 0
        /\ records[runs[r].recId].totalExports = 2

(***************************************************************************)
(* Claims about disabling a task that does not exist                       *)
(***************************************************************************)
\* the placeholder: disabled, daily at 00:00, nobody to send to, nothing to export
PlaceholderOf(t) ==
    [id |-> SYSTEM_TASK_ID, tenantId |-> t, enable |-> FALSE,
     frequency |-> "daily", time |-> [hh |-> 0, mm |-> 0],
     recipient |-> {}, pageIds |-> <<>>, branchIds |-> <<>>,
     cronExpression |-> [sec |-> 0, min |-> 0, hour |-> 0,
                         dom |-> "*", mon |-> "*", dow |-> "*"]]

\* C30: when the write of a createOrUpdate(enable = false) is applied for a
\* key without stored task, the store gets exactly one document for the key,
\* the placeholder (enable = false, daily, 00:00, empty recipient, pageIds and
\* branchIds, cron expression 0 0 0 * * *); when it is applied for a key that
\* has a document, no document is added, and a stored placeholder stays as it
\* is; no step of a disabling call starts a timer or registers a job, and when
\* the call returns no job is registered for the key; as long as the store
\* holds the placeholder no job is registered for its key, and no key ever has
\* two documents.
DisableCreatesOnePlaceholder ==
    /\ [][\A c \in InFlight :
            (\/ c.pc = "disable_upsert" /\ calls' = Move(c, [c EXCEPT !.pc = "disable_resume"])
             \/ c.pc = "disable_resume" /\ calls' = Return(c)) =>
                LET key == JobName(SYSTEM_TASK_ID, c.tenant)
                IN  /\ timers' \subseteq timers
                    /\ cronJobs'[key] \in {NoJob, cronJobs[key]}
                    /\ \A t \in Tenants \ {c.tenant} :
                           taskStore'[t] = taskStore[t] /\ taskDocs'[t] = taskDocs[t]
                    /\ (c.pc = "disable_upsert" /\ taskStore[c.tenant] = NoTask) =>
                           /\ taskDocs[c.tenant] = 0
                           /\ taskDocs'[c.tenant] = 1
                           /\ taskStore'[c.tenant] = PlaceholderOf(c.tenant)
                    /\ (c.pc = "disable_upsert" /\ taskStore[c.tenant] # NoTask) =>
                           /\ taskDocs'[c.tenant] = taskDocs[c.tenant]
                           /\ taskStore[c.tenant] = PlaceholderOf(c.tenant)
                                  => taskStore'[c.tenant] = taskStore[c.tenant]
                    /\ c.pc = "disable_resume" =>
                           /\ cronJobs'[key] = NoJob
                           /\ taskStore' = taskStore
                           /\ taskDocs' = taskDocs]_vars
    /\ [](\A t \in Tenants :
            /\ taskDocs[t] <= 1
            /\ taskStore[t] = PlaceholderOf(t)
                   => cronJobs[JobName(SYSTEM_TASK_ID, t)] = NoJob)

\* two disabling calls for T1, and nothing else, have returned: one placeholder
\* document, no job and no timer
DisabledTwice ==
    /\ AllCallsCompleted
    /\ ops = 2
    /\ rejected = {}
    /\ taskStore["T1"] = PlaceholderOf("T1")
    /\ taskDocs["T1"] = 1
    /\ taskStore["T2"] = NoTask
    /\ taskDocs["T2"] = 0
    /\ timers = {}
    /\ \A n \in JobNames : cronJobs[n] = NoJob

(***************************************************************************)
(* Claims about the export sub-tasks                                       *)
(***************************************************************************)
\* the sub-tasks that are stored before and after a step
Kept == DOMAIN exportTasks \cap DOMAIN exportTasks'

\* the status changes processExportTask makes
StatusMoves ==
    {<<"pending", "processing">>, <<"processing", "completed">>, <<"processing", "failed">>}

\* every step changes a sub-task's status along pending -> processing ->
\* (completed | failed) or not at all, a sub-task is created pending and
\* without file, a completed or failed sub-task never changes again, and the
\* filePath is written only together with status completed
StatusMovesForward ==
    [][/\ \A i \in Kept :
              /\ exportTasks'[i].status # exportTasks[i].status
                     => <<exportTasks[i].status, exportTasks'[i].status>> \in StatusMoves
              /\ exportTasks[i].status \in {"completed", "failed"}
                     => exportTasks'[i] = exportTasks[i]
              /\ exportTasks'[i].filePath # exportTasks[i].filePath
                     => exportTasks'[i].status = "completed"
       /\ \A i \in DOMAIN exportTasks' \ DOMAIN exportTasks :
              exportTasks'[i].status = "pending" /\ exportTasks'[i].filePath = NoPath
      ]_vars

ZoneGivenBy(dto) ==
    IF "timezone" \in DOMAIN dto THEN dto.timezone ELSE DEFAULT_TIMEZONE

\* C32: when an enabling createOrUpdate, the only call in flight, registers
\* the timer for the task it stored, the timer fires in the timezone given in
\* the request body, or in the default timezone when none was given, and a
\* run started by a timer computes its window in the zone of that timer.
TimerFiresInGivenTimezone ==
    /\ [][\A c \in InFlight :
            LET key == JobName(SYSTEM_TASK_ID, c.tenant)
            IN  (/\ c.op = "createOrUpdate"
                 /\ c.pc = "resched_resume"
                 /\ calls = SetToBag({c})
                 /\ calls' = EmptyBag
                 /\ c.read # NoTask
                 /\ cronJobs'[key] # NoJob) =>
                    \A j \in timers' :
                        (j.id = cronJobs'[key] /\ j.task.frequency = c.dto.frequency)
                            => TimezoneOf(j.task) = ZoneGivenBy(c.dto)]_vars
    /\ [][\A r \in RunIds :
            (runs[r].pc = "idle" /\ runs'[r].pc # "idle") =>
                \E j \in timers : TimezoneOf(runs'[r].task) = TimezoneOf(j.task)]_vars

(***************************************************************************)
(* Claims about concurrent updates of one task                             *)
(***************************************************************************)
\* the job registered for the task of tenant t
RegisteredJobs(t) == {j \in timers : j.id = cronJobs[JobName(SYSTEM_TASK_ID, t)]}

\* C33: once all createOrUpdate(enable = true) calls have completed, the
\* timer registered for a key has the cron expression of the task as finally
\* stored, and its runs use that task.
TimerMatchesStoredTask ==
    AllCallsCompleted =>
        \A t \in Tenants : \A j \in RegisteredJobs(t) :
            /\ j.task.cronExpression = taskStore[t].cronExpression
            /\ j.task = taskStore[t]

(***************************************************************************)
(* Claims about failed updates                                             *)
(***************************************************************************)
\* the registry before any call: the job of T1's task and no other
RegistryUntouched ==
    /\ cronJobs[JobName(SYSTEM_TASK_ID, "T1")] = 1
    /\ cronJobs[JobName(SYSTEM_TASK_ID, "T2")] = NoJob
    /\ Cardinality(timers) = 1
    /\ \A j \in timers : j.id = 1 /\ j.name = JobName(SYSTEM_TASK_ID, "T1")

\* C34: when the first createOrUpdate call has ended with an error, whatever
\* step failed, the timer registry is as it was before the call: the enabled
\* task of T1 still has its timer and no other timer exists.
FailedCallLeavesRegistry ==
    (AllCallsCompleted /\ ops = 1 /\ rejected # {}) => RegistryUntouched

(***************************************************************************)
(* Claims about the window of a run's sub-tasks                            *)
(***************************************************************************)
\* C35: every sub-task of a run, the ones a retry creates included, is
\* created with the startTime and endTime computed at the start of the run.
EverySubTaskHasTheRunWindow ==
    \A i \in 1..Len(timeRange.created) : timeRange.created[i] = timeRange.range

RecordedRuns == {r \in DOMAIN runs : runs[r].pc # "idle" /\ runs[r].recId # 0}

\* |pageIds| * max(1, |branchIds|)
PairsOf(task) ==
    Len(task.pageIds) * (IF Len(task.branchIds) = 0 THEN 1 ELSE Len(task.branchIds))

\* C37: every saved execution record has
\* 0 <= successfulExports <= totalExports <= |pageIds| * max(1, |branchIds|),
\* and successfulExports is at most the number of (page, branch) pairs that
\* succeeded; a sub-task re-created by a retry leaves totalExports as it is,
\* and so does a page whose creation fails.
RecordCountersAreBounded ==
    /\ [](\A r \in RecordedRuns :
            LET rec == records[runs[r].recId]
            IN  /\ 0 <= rec.successfulExports
                /\ rec.successfulExports <= rec.totalExports
                /\ rec.totalExports <= PairsOf(runs[r].task)
                /\ rec.successfulExports <= Cardinality(runs[r].okPairs))
    /\ [][\A r \in RecordedRuns :
            /\ (runs[r].pc = "retry_create" /\ runs'[r] # runs[r]) =>
                   runs'[r].rec.totalExports = runs[r].rec.totalExports
            /\ (runs[r].pc = "create_tasks" /\ runs'[r].createFailed
                    /\ ~runs[r].createFailed) =>
                   runs'[r].rec.totalExports = runs[r].rec.totalExports]_vars

\* a run over two pages and two branches has ended: one sub-task was created
\* again by a retry, the creation for the second page failed, and the saved
\* record counts two sub-tasks and two successes
RetriedAndFailedPageCounted ==
    \E r \in RecordedRuns :
        /\ runs[r].pc = "done"
        /\ PairsOf(runs[r].task) = 4
        /\ runs[r].createFailed
        /\ exportCount = 3
        /\ records[runs[r].recId].totalExports = 2
        /\ records[runs[r].recId].successfulExports = 2

(***************************************************************************)
(* Claims about a retry whose creation throws                              *)
(***************************************************************************)
\* C38: when the createExportTask of a retry throws, the wait for that (page,
\* branch) pair ends at once with null: no sub-task is created, nothing is
\* added to the successful exports, the driver does not sleep again and the
\* retries that were left are not used.
ThrowingRetryEndsThePair ==
    [][\A r \in DOMAIN runs :
          (runs[r].pc = "retry_create" /\ faults' # faults) =>
              /\ runs[r].retryCount < retryLimit
              /\ runs'[r].pc # "retry_create"
              /\ runs'[r].last.result = "null"
              /\ runs'[r].last.threw
              /\ runs'[r].last.delays = runs[r].att.delays
              /\ runs'[r].last.creates = runs[r].att.creates + 1
              /\ runs'[r].successes = runs[r].successes
              /\ runs'[r].okPairs = runs[r].okPairs
              /\ exportCount' = exportCount]_vars

\* the first retry of a pair threw when two retries were allowed: the pair
\* ended with null after one sleep and the run went on to its end
FirstRetryThrewWithRetriesLeft ==
    \E r \in DOMAIN runs :
        /\ runs[r].pc = "done"
        /\ retryLimit >= 2
        /\ runs[r].last.result = "null"
        /\ runs[r].last.threw
        /\ Len(runs[r].last.delays) = 1
        /\ runs[r].successes = <<>>

(***************************************************************************)
(* Claims about the daily export limit                                     *)
(***************************************************************************)
\* C39: for every tenant and asset the number of export sub-tasks created on
\* one day never exceeds MAX_DAILY_EXPORTS, however concurrent createExportTask
\* calls interleave, and a creation attempted when the count has reached the
\* limit is rejected and creates no sub-task.
DailyLimitIsNeverExceeded ==
    /\ [](\A t \in Tenants : CountDocuments(t, PageId(1)) <= MAX_DAILY_EXPORTS)
    /\ [][\A c \in InFlight :
            (/\ c.pc = "check_limit"
             /\ CountDocuments(c.tenant, c.dto.reportPage) >= MAX_DAILY_EXPORTS
             /\ calls' = Return(c)) =>
                (rejected' # rejected /\ exportTasks' = exportTasks)]_vars

(***************************************************************************)
(* Claims about the queries of the execution-record store                  *)
(***************************************************************************)
\* C40: every response to a query of an authenticated caller holds only
\* records whose tenantId is the caller's.
ResponsesHoldOwnRecordsOnly ==
    \A c \in InFlight :
        c.pc = "responded" =>
            \A k \in 1..Len(c.loaded) : records[c.loaded[k]].tenantId = c.tenant
====
